---- MODULE Spec2Model ----
(***************************************************************************)
(* Block lifecycle, block position keys and block-asset reconciliation of  *)
(* the photoscript backend: app/services/block_service.py,                 *)
(* app/services/asset_service.py and the handlers of app/routers/blocks.py *)
(* that edit a block.                                                      *)
(*                                                                         *)
(* The database is the state: the blocks table, the assets table and the   *)
(* block_assets table.  A row's uuid primary key is a fresh number drawn   *)
(* from a counter that never reuses a value.  The block_assets rows carry  *)
(* no ordering the code relies on (no query orders them except by score),  *)
(* so the table is a bag of rows and `.first()` picks any matching row.    *)
(*                                                                         *)
(* BlockService addresses a block's position key as `index` (an integer);  *)
(* models/block.py and migration m003 name the same column `order`.  The   *)
(* model keeps BlockService's name and arithmetic.                         *)
(***************************************************************************)
EXTENDS Integers, Sequences, FiniteSets, Bags, TLC

\* ------------------------------------------------------------------ bounds
\* Block ids ever allocated (uuid4 values are never reused).
MaxBlockIds == 3
\* Largest insert_at a caller passes to create_block.
MaxInsertAt == 2
\* Rows of block_assets at any time.
MaxLinks == 2
\* Where the blocks carry block_assets rows: the blocks create_block adds,
\* and the block ids ever allocated.
MaxCreated == 1
MaxLinkedIds == 2
\* Longest text a merge may build.
MaxTextLen == 7

\* -------------------------------------------------------- program constants
\* split_block keeps keywords[:3] on the first half.
SplitKeywordCut == 3
\* merge_blocks keeps merged_keywords[:10].
MergeKeywordCap == 10
\* The step between neighbouring position keys (index + 1).
GAP == 1

\* ---------------------------------------------------------------- domains
Projects == {"p1", "p2"}

DRAFT == "DRAFT"
PENDING == "PENDING"
MATCHED == "MATCHED"
NO_RESULT == "NO_RESULT"
CUSTOM == "CUSTOM"
BlockStatus == {DRAFT, PENDING, MATCHED, NO_RESULT, CUSTOM}

AUTO == "AUTO"
USER == "USER"
ChosenBy == {AUTO, USER}

Whitespace == {" ", "\n"}

\* Texts a caller submits (sequences of characters).
TextInputs ==
  { <<"a", " ", "b", " ">> }

\* Keyword lists a caller submits.
KeywordInputs ==
  { <<"k1", "k2", "k3", "k4">> }

\* A candidate as save_and_link_assets reads it: source_url and score.
Candidate(u, s) == [source_url |-> u, score |-> s]

\* Candidate lists handed to the reconciler.
CandidateLists ==
  { <<>>,
    <<Candidate("u1", 2)>>,
    <<Candidate("u2", 1), Candidate("u1", 2)>> }

\* Single candidates handed to add_asset_to_block.
CandidateInputs == {Candidate("u1", 2), Candidate("u2", 1)}

\* Result lists of a search with an extra keyword: a result may repeat.
SearchLists ==
  { <<>>,
    <<Candidate("u1", 2), Candidate("u1", 2)>>,
    <<Candidate("u2", 1), Candidate("u1", 2)>> }

\* source_url values handed to get_or_create_asset: missing, or a URL.
UrlInputs == {"", "u1", "u2"}

\* Texts and keyword lists an edit submits or the LLM returns.
EditTexts == { <<"c", " ", "d">> }
EditKeywords == { <<"k9">> }

\* Texts and keyword lists of blocks that get merged: three blocks' lists
\* overlap and together hold more than MergeKeywordCap keywords.
MergeTexts == { <<"x">> }
MergeKeywordInputs ==
  { <<"k1", "k2", "k3", "k4">>,
    <<"k4", "k5", "k6", "k7", "k8">>,
    <<"k8", "k9", "k10", "k11", "k12">> }

\* Optional[...] arguments: None, or the value given.
None == <<>>
Some(x) == <<x>>
Optional(S) == {None} \cup {Some(x) : x \in S}

VARIABLES
  blocks,        \* blocks table: block id -> [project_id, index, text, keywords, status]
  nextBlockId,   \* the next fresh block id
  assets,        \* assets table: set of [id, source_url]
  nextAssetId,   \* the next fresh asset id
  block_assets,  \* block_assets table: bag of [block_id, asset_id, score, is_primary, chosen_by]
  last,          \* the call that produced this state and how it ended
  requests,      \* calls in flight: request id -> its arguments, locals and position
  qa_tasks,      \* qa_tasks table: task id -> [project_id, status, progress, ...]
  qa_versions    \* qa_versions table: set of [id, project_id, version_number]

vars == <<blocks, nextBlockId, assets, nextAssetId, block_assets, last,
          requests, qa_tasks, qa_versions>>

\* What a call that runs from its first to its last statement without another
\* call in between, and that does not touch the QA tables, leaves alone.
elsewhere == <<requests, qa_tasks, qa_versions>>

\* ------------------------------------------------------------ pure helpers
Min(a, b) == IF a < b THEN a ELSE b

RECURSIVE LStrip(_)
LStrip(s) ==
  IF s = <<>> THEN s
  ELSE IF Head(s) \in Whitespace THEN LStrip(Tail(s)) ELSE s

RECURSIVE RStrip(_)
RStrip(s) ==
  IF s = <<>> THEN s
  ELSE IF s[Len(s)] \in Whitespace THEN RStrip(SubSeq(s, 1, Len(s) - 1)) ELSE s

\* str.strip()
Strip(s) == RStrip(LStrip(s))

\* s[:n] and s[n:] for n >= 0
Prefix(s, n) == SubSeq(s, 1, Min(n, Len(s)))
Suffix(s, n) == SubSeq(s, n + 1, Len(s))

SeqToSet(s) == {s[i] : i \in 1..Len(s)}

\* ------------------------------------------------------------------ queries
BlockIds == DOMAIN blocks

ProjectBlocks(p) == {b \in BlockIds : blocks[b].project_id = p}

\* All listings of the blocks S by ascending index (ties in either order).
OrderedByIndex(S) ==
  { s \in [1..Cardinality(S) -> S] :
      /\ \A i, j \in 1..Cardinality(S) : i # j => s[i] # s[j]
      /\ \A i \in 1..(Cardinality(S) - 1) : blocks[s[i]].index <= blocks[s[i+1]].index }

\* Rows of block_assets of block b.
LinksOf(b) == {r \in BagToSet(block_assets) : r.block_id = b}

\* The call record: the operation, how it ended, the block it addressed (id),
\* the set it addressed (ids), its position, asset or candidate-list argument
\* (pos), the block it created (new), what the addressed blocks were before
\* the call: the status of block id (was) and the number of block_assets rows
\* of id and ids (had), and, for a set-primary call, the asset of the
\* set-primary call that directly preceded it on the same block (prev; 0: none).
Call(op, id, ids, pos, new) ==
  [op |-> op, res |-> "ok", why |-> "", id |-> id, ids |-> ids, pos |-> pos, new |-> new,
   was |-> IF id \in BlockIds THEN blocks[id].status ELSE "",
   had |-> BagCardinality(
             [r \in {x \in DOMAIN block_assets : x.block_id \in ids \cup {id}} |->
                block_assets[r]]),
   prev |-> 0]

\* The record of a call that raised: the error and the branch that raised it.
Raised(op, res, why) ==
  [op |-> op, res |-> res, why |-> why, id |-> 0, ids |-> {}, pos |-> 0, new |-> 0,
   was |-> "", had |-> 0, prev |-> 0]

SetPrimaryOps == {"set_primary_asset", "router_set_primary_asset"}

\* The record of a set-primary call that returned.
PrimaryCall(op, block_id, asset_id) ==
  [Call(op, block_id, {}, asset_id, 0) EXCEPT
     !.prev = IF last.op \in SetPrimaryOps /\ last.res = "ok" /\ last.id = block_id
                THEN last.pos ELSE 0]

\* ------------------------------------------------------------------- Init
Init ==
  /\ blocks = << >>
  /\ nextBlockId = 1
  /\ assets = {}
  /\ nextAssetId = 1
  /\ requests = << >>
  /\ qa_tasks = << >>
  /\ qa_versions = {}
  /\ block_assets = EmptyBag
  /\ last = Raised("init", "ok", "")

\* ---------------------------------------------------------- AssetService
\* The three tables an AssetService call reads and writes.
Db == [assets |-> assets, nextAssetId |-> nextAssetId, block_assets |-> block_assets]

\* A get_or_create_asset without the lookup of lines 49-55: always a new row.
AlwaysCreateAsset(db, source_url) ==
  [db |-> [db EXCEPT !.assets = @ \cup {[id |-> db.nextAssetId, source_url |-> source_url]},
                     !.nextAssetId = @ + 1],
   id |-> db.nextAssetId]

\* get_or_create_asset: the asset row with this source_url, created when absent.
\* Returns the tables and the asset's id.
GetOrCreateAsset(db, source_url) ==
  IF \E a \in db.assets : a.source_url = source_url
    THEN [db |-> db, id |-> (CHOOSE a \in db.assets : a.source_url = source_url).id]
    ELSE [db |-> [db EXCEPT !.assets = @ \cup {[id |-> db.nextAssetId, source_url |-> source_url]},
                            !.nextAssetId = @ + 1],
          id |-> db.nextAssetId]

get_or_create_asset(Urls) ==
  \E source_url \in Urls :
    \/ /\ source_url = ""
       /\ last' = Raised("get_or_create_asset", "AssetSaveError", "source_url")
       /\ UNCHANGED <<blocks, nextBlockId, assets, nextAssetId, block_assets, elsewhere>>
    \/ /\ source_url # ""
       /\ LET got == GetOrCreateAsset(Db, source_url)
          IN /\ assets' = got.db.assets
             /\ nextAssetId' = got.db.nextAssetId
             /\ UNCHANGED elsewhere
             /\ last' = Call("get_or_create_asset", 0, {}, got.id, 0)
       /\ UNCHANGED <<blocks, nextBlockId, block_assets>>

\* The BlockAsset row save_and_link_assets builds for candidate number i
\* (enumerate starts at 0: the model's i = 1 is the code's i == 0).
NewLink(block_id, asset_id, candidate, i) ==
  [block_id |-> block_id, asset_id |-> asset_id, score |-> candidate.score,
   is_primary |-> (i = 1), chosen_by |-> AUTO]

\* save_and_link_assets lines 97-113: one asset lookup and one new row per candidate.
RECURSIVE LinkCandidates(_, _, _, _)
LinkCandidates(db, block_id, assets_data, i) ==
  IF i > Len(assets_data) THEN db
  ELSE LET got == GetOrCreateAsset(db, assets_data[i].source_url)
           row == NewLink(block_id, got.id, assets_data[i], i)
       IN LinkCandidates([got.db EXCEPT !.block_assets = @ (+) SetToBag({row})],
                         block_id, assets_data, i + 1)

\* A delete_block_assets that deletes nothing.
KeepBlockAssets(ba, b) == ba

\* delete_block_assets: the table without the rows of block b.
DeleteBlockAssets(ba, b) ==
  [r \in {x \in DOMAIN ba : x.block_id # b} |-> ba[r]]

\* A save_and_link_assets that skips the delete of lines 95-97.
SaveAndLinkAssetsNoClear(db, block_id, assets_data, clear_existing) ==
  LinkCandidates(db, block_id, assets_data, 1)

\* save_and_link_assets: the tables after the call.
SaveAndLinkAssets(db, block_id, assets_data, clear_existing) ==
  LinkCandidates(
    IF clear_existing
      THEN [db EXCEPT !.block_assets = DeleteBlockAssets(@, block_id)]
      ELSE db,
    block_id, assets_data, 1)

WriteDb(db) ==
  /\ assets' = db.assets
  /\ nextAssetId' = db.nextAssetId
  /\ UNCHANGED elsewhere
  /\ block_assets' = db.block_assets

save_and_link_assets(Lists) ==
  \E block_id \in BlockIds, assets_data \in Lists, clear_existing \in BOOLEAN :
    LET db == SaveAndLinkAssets(Db, block_id, assets_data, clear_existing)
    IN /\ BagCardinality(db.block_assets) <= MaxLinks
       /\ WriteDb(db)
       /\ last' = Call(IF clear_existing THEN "save_and_link_assets"
                       ELSE "save_and_link_assets_keep", block_id, {}, assets_data, 0)
       /\ UNCHANGED <<blocks, nextBlockId>>

\* An add_asset_to_block without the existing-link check of lines 143-150.
AddAssetToBlockUnchecked(db, block_id, asset_data, is_primary) ==
  LET got == GetOrCreateAsset(db, asset_data.source_url)
      row == [block_id |-> block_id, asset_id |-> got.id, score |-> asset_data.score,
              is_primary |-> is_primary, chosen_by |-> AUTO]
  IN [got.db EXCEPT !.block_assets = @ (+) SetToBag({row})]

\* add_asset_to_block: the asset is looked up or created, then the row is
\* added unless the block already has a row for the asset.
AddAssetToBlock(db, block_id, asset_data, is_primary) ==
  LET got == GetOrCreateAsset(db, asset_data.source_url)
      row == [block_id |-> block_id, asset_id |-> got.id, score |-> asset_data.score,
              is_primary |-> is_primary, chosen_by |-> AUTO]
  IN IF \E r \in DOMAIN got.db.block_assets : r.block_id = block_id /\ r.asset_id = got.id
       THEN got.db
       ELSE [got.db EXCEPT !.block_assets = @ (+) SetToBag({row})]

add_asset_to_block(Candidates) ==
  \E block_id \in BlockIds, asset_data \in Candidates, is_primary \in BOOLEAN :
    LET db == AddAssetToBlock(Db, block_id, asset_data, is_primary)
    IN /\ BagCardinality(db.block_assets) <= MaxLinks
       /\ WriteDb(db)
       /\ last' = Call("add_asset_to_block", block_id, {}, 0, 0)
       /\ UNCHANGED <<blocks, nextBlockId>>

\* A set_primary_asset without the reset of lines 230-233.
SetPrimaryNoReset(ba, target) ==
  (ba (-) SetToBag({target})) (+)
    SetToBag({[target EXCEPT !.is_primary = TRUE, !.chosen_by = USER]})

\* set_primary_asset lines 230-237: every primary row of the block is reset,
\* then the target row (one row the lookup returned) is made primary, USER.
SetPrimary(ba, target) ==
  LET others == ba (-) SetToBag({target})
      Reset(r) == IF r.block_id = target.block_id /\ r.is_primary
                    THEN [r EXCEPT !.is_primary = FALSE, !.chosen_by = AUTO] ELSE r
      rows == {Reset(r) : r \in DOMAIN others}
      reset == [x \in rows |->
                  BagCardinality([r \in {y \in DOMAIN others : Reset(y) = x} |-> others[r]])]
  IN reset (+) SetToBag({[target EXCEPT !.is_primary = TRUE, !.chosen_by = USER]})

\* The asset ids a caller may name: those in the table and one that is not.
AssetIdInputs == {a.id : a \in assets} \cup {nextAssetId}

\* A set_primary_asset that resets the block's primary rows (lines 230-233)
\* before it looks the target up (lines 218-227).
set_primary_asset_ResetFirst ==
  \E block_id \in BlockIds, asset_id \in AssetIdInputs :
    \/ /\ ~\E r \in DOMAIN block_assets : r.block_id = block_id /\ r.asset_id = asset_id
       /\ last' = Raised("set_primary_asset", "AssetNotFoundError", "no_link")
       /\ LET Reset(r) == IF r.block_id = block_id /\ r.is_primary
                            THEN [r EXCEPT !.is_primary = FALSE, !.chosen_by = AUTO] ELSE r
          IN block_assets' =
               [x \in {Reset(r) : r \in DOMAIN block_assets} |->
                  BagCardinality([r \in {y \in DOMAIN block_assets : Reset(y) = x} |->
                                    block_assets[r]])]
       /\ UNCHANGED <<blocks, nextBlockId, assets, nextAssetId, elsewhere>>
    \/ \E target_ba \in DOMAIN block_assets :
         /\ target_ba.block_id = block_id
         /\ target_ba.asset_id = asset_id
         /\ block_assets' = SetPrimary(block_assets, target_ba)
         /\ last' = PrimaryCall("set_primary_asset", block_id, asset_id)
         /\ UNCHANGED <<blocks, nextBlockId, assets, nextAssetId, elsewhere>>

set_primary_asset ==
  \E block_id \in BlockIds, asset_id \in AssetIdInputs :
    \/ /\ ~\E r \in DOMAIN block_assets : r.block_id = block_id /\ r.asset_id = asset_id
       /\ last' = Raised("set_primary_asset", "AssetNotFoundError", "no_link")
       /\ UNCHANGED <<blocks, nextBlockId, assets, nextAssetId, block_assets, elsewhere>>
    \/ \E target_ba \in DOMAIN block_assets :
         /\ target_ba.block_id = block_id
         /\ target_ba.asset_id = asset_id
         /\ block_assets' = SetPrimary(block_assets, target_ba)
         /\ last' = PrimaryCall("set_primary_asset", block_id, asset_id)
         /\ UNCHANGED <<blocks, nextBlockId, assets, nextAssetId, elsewhere>>

\* ---------------------------------------------------------- BlockService
\* create_block without the shift of lines 75-82: the new row takes insert_at
\* and the rows already there keep theirs.
CreateBlockRowsNoShift(p, text, keywords, insert_at) ==
  [b \in BlockIds \cup {nextBlockId} |->
     IF b = nextBlockId
       THEN [project_id |-> p, index |-> insert_at, text |-> text,
             keywords |-> keywords, status |-> DRAFT]
     ELSE blocks[b]]

\* create_block: shift every block of the project at insert_at or later,
\* then insert the new block at insert_at with status DRAFT.
CreateBlockRows(p, text, keywords, insert_at) ==
  [b \in BlockIds \cup {nextBlockId} |->
     IF b = nextBlockId
       THEN [project_id |-> p, index |-> insert_at, text |-> text,
             keywords |-> keywords, status |-> DRAFT]
     ELSE IF blocks[b].project_id = p /\ blocks[b].index >= insert_at
       THEN [blocks[b] EXCEPT !.index = @ + 1]
     ELSE blocks[b]]

create_block(P, T, K, I, N) ==
  \E p \in P, text \in T, keywords \in K, insert_at \in I :
    /\ nextBlockId <= N
    /\ blocks' = CreateBlockRows(p, text, keywords, insert_at)
    /\ nextBlockId' = nextBlockId + 1
    /\ last' = Call("create_block", nextBlockId, {}, insert_at, nextBlockId)
    /\ UNCHANGED <<assets, nextAssetId, block_assets, elsewhere>>

\* get_block raising BlockNotFoundError inside operation op: nothing is written.
BlockNotFound(op) ==
  \E id \in 1..nextBlockId :
    /\ id \notin BlockIds
    /\ last' = Raised(op, "BlockNotFoundError", "get_block")
    /\ UNCHANGED <<blocks, nextBlockId, assets, nextAssetId, block_assets, elsewhere>>

\* delete_block: the rows left once block id is deleted and every later block
\* of its project has moved down by one.
DeleteBlockRows(id) ==
  [b \in BlockIds \ {id} |->
     IF blocks[b].project_id = blocks[id].project_id /\ blocks[b].index > blocks[id].index
       THEN [blocks[b] EXCEPT !.index = @ - 1]
     ELSE blocks[b]]

delete_block ==
  \/ \E id \in BlockIds :
       /\ block_assets' = DeleteBlockAssets(block_assets, id)
       /\ blocks' = DeleteBlockRows(id)
       /\ last' = Call("delete_block", id, {}, 0, 0)
       /\ UNCHANGED <<nextBlockId, assets, nextAssetId, elsewhere>>
  \/ BlockNotFound("delete_block")

\* The first half without the trim of line 198.
SplitFirstTextUntrimmed(text, position) == SubSeq(text, 1, position)

\* split_block: the two texts.
SplitFirstText(text, position) == Strip(Prefix(text, position))
SplitSecondText(text, position) == Strip(Suffix(text, position))

\* split_block line 191: the position is rejected.
SplitBadPosition(text, position) == position <= 0 \/ position >= Len(text)

\* split_block line 201: a half is empty after the trim.
SplitEmptyHalf(text, position) ==
  SplitFirstText(text, position) = <<>> \/ SplitSecondText(text, position) = <<>>

\* split_block line 212: block.keywords = block.keywords[:3] if block.keywords else []
SplitFirstKeywords(keywords) ==
  IF keywords # <<>> THEN Prefix(keywords, SplitKeywordCut) ELSE <<>>

\* split_block line 220: evaluated after line 212 has reassigned block.keywords,
\* so block.keywords here is the first half's list.
SplitSecondKeywords(keywords) ==
  LET reassigned == SplitFirstKeywords(keywords)
  IN IF reassigned # <<>> /\ Len(reassigned) > SplitKeywordCut
       THEN Suffix(reassigned, SplitKeywordCut) ELSE <<>>

\* split_block without the shift of lines 227-234.
SplitBlockRowsNoShift(id, position) ==
  [b \in BlockIds \cup {nextBlockId} |->
     IF b = id
       THEN [blocks[id] EXCEPT !.text = Strip(SubSeq(blocks[id].text, 1, position)),
                               !.status = DRAFT]
     ELSE IF b = nextBlockId
       THEN [project_id |-> blocks[id].project_id, index |-> blocks[id].index + 1,
             text |-> Strip(SubSeq(blocks[id].text, position + 1, Len(blocks[id].text))),
             keywords |-> <<>>, status |-> DRAFT]
     ELSE blocks[b]]

\* split_block lines 210-236: the first half in place, the new block at
\* index + 1, every later block of the project moved up by one.
SplitBlockRows(id, position) ==
  [b \in BlockIds \cup {nextBlockId} |->
     IF b = id
       THEN [blocks[id] EXCEPT !.text = SplitFirstText(blocks[id].text, position),
                               !.keywords = SplitFirstKeywords(blocks[id].keywords),
                               !.status = DRAFT]
     ELSE IF b = nextBlockId
       THEN [project_id |-> blocks[id].project_id,
             index |-> blocks[id].index + 1,
             text |-> SplitSecondText(blocks[id].text, position),
             keywords |-> SplitSecondKeywords(blocks[id].keywords),
             status |-> DRAFT]
     ELSE IF blocks[b].project_id = blocks[id].project_id /\ blocks[b].index > blocks[id].index
       THEN [blocks[b] EXCEPT !.index = @ + 1]
     ELSE blocks[b]]

\* A split that raises only after the block's block_assets rows are deleted
\* (line 208 moved above the checks of lines 191 and 201).
SplitRejectedAfterDelete(id, why) ==
  /\ last' = [op |-> "split_block", res |-> "BlockSplitError", why |-> why, id |-> 0,
              ids |-> {}, pos |-> 0, new |-> 0, was |-> "", had |-> 0, prev |-> 0]
  /\ block_assets' = [r \in {x \in DOMAIN block_assets : x.block_id # id} |-> block_assets[r]]
  /\ UNCHANGED <<blocks, nextBlockId, assets, nextAssetId, elsewhere>>

\* split_block lines 192 and 202: BlockSplitError is raised before any write.
SplitRejected(id, why) ==
  /\ last' = Raised("split_block", "BlockSplitError", why)
  /\ UNCHANGED <<blocks, nextBlockId, assets, nextAssetId, block_assets, elsewhere>>

split_block(N) ==
  \/ \E id \in BlockIds : \E position \in (-1)..(Len(blocks[id].text) + 1) :
       \/ /\ SplitBadPosition(blocks[id].text, position)
          /\ SplitRejected(id, "position")
       \/ /\ ~SplitBadPosition(blocks[id].text, position)
          /\ SplitEmptyHalf(blocks[id].text, position)
          /\ SplitRejected(id, "empty_half")
       \/ /\ ~SplitBadPosition(blocks[id].text, position)
          /\ ~SplitEmptyHalf(blocks[id].text, position)
          /\ nextBlockId <= N
          /\ block_assets' = DeleteBlockAssets(block_assets, id)
          /\ blocks' = SplitBlockRows(id, position)
          /\ nextBlockId' = nextBlockId + 1
          /\ last' = Call("split_block", id, {}, position, nextBlockId)
          /\ UNCHANGED <<assets, nextAssetId, elsewhere>>
  \/ BlockNotFound("split_block")

\* "\n\n".join(texts)
RECURSIVE JoinTexts(_)
JoinTexts(texts) ==
  IF texts = <<>> THEN <<>>
  ELSE IF Len(texts) = 1 THEN texts[1]
  ELSE texts[1] \o <<"\n", "\n">> \o JoinTexts(Tail(texts))

\* A keyword merge that keeps repeats.
AppendAll(merged, keywords) == merged \o keywords

\* merge_blocks lines 286-291: keywords in first-seen order, without repeats.
RECURSIVE AppendNew(_, _)
AppendNew(merged, keywords) ==
  IF keywords = <<>> THEN merged
  ELSE AppendNew(IF Head(keywords) \in SeqToSet(merged) THEN merged
                 ELSE Append(merged, Head(keywords)),
                 Tail(keywords))

RECURSIVE MergedKeywords(_, _)
MergedKeywords(merged, lists) ==
  IF lists = <<>> THEN merged
  ELSE MergedKeywords(AppendNew(merged, Head(lists)), Tail(lists))

\* merge_blocks line 269: some requested id names no block of the project.
MergeMissing(p, block_ids) ==
  Cardinality(block_ids \cap ProjectBlocks(p)) # Cardinality(block_ids)

\* An adjacency check that rejects nothing.
MergeNotAdjacentNever(found) == FALSE

\* merge_blocks lines 276-282: two neighbours of the found list are not one index apart.
MergeNotAdjacent(found) ==
  \E i \in 1..(Len(found) - 1) : blocks[found[i+1]].index - blocks[found[i]].index # 1

\* merge_blocks lines 293-296: the survivor's new content.
MergeSurvivor(found) ==
  [blocks[found[1]] EXCEPT
     !.text = JoinTexts([i \in 1..Len(found) |-> blocks[found[i]].text]),
     !.keywords = Prefix(MergedKeywords(<<>>, [i \in 1..Len(found) |-> blocks[found[i]].keywords]),
                         MergeKeywordCap),
     !.status = DRAFT]

\* merge_blocks lines 304-309: the project's remaining blocks, listed by index
\* as `remaining`, renumbered 0, 1, 2, ...
Renumbered(rows, remaining) ==
  [b \in DOMAIN rows |->
     IF \E i \in 1..Len(remaining) : remaining[i] = b
       THEN [rows[b] EXCEPT !.index = (CHOOSE i \in 1..Len(remaining) : remaining[i] = b) - 1]
     ELSE rows[b]]

\* merge_blocks lines 298-301: delete_block_assets for every block but the first.
RECURSIVE DeleteAssetsOfAll(_, _)
DeleteAssetsOfAll(ba, S) ==
  IF S = {} THEN ba
  ELSE LET b == CHOOSE x \in S : TRUE IN DeleteAssetsOfAll(DeleteBlockAssets(ba, b), S \ {b})

merge_blocks(MaxMerge) ==
  \E p \in Projects, block_ids \in SUBSET (1..nextBlockId) :
    /\ Cardinality(block_ids) >= 2
    /\ Cardinality(block_ids) <= MaxMerge
    /\ \/ /\ MergeMissing(p, block_ids)
          /\ last' = Raised("merge_blocks", "BlockMergeError", "missing")
          /\ UNCHANGED <<blocks, nextBlockId, assets, nextAssetId, block_assets, elsewhere>>
       \/ /\ ~MergeMissing(p, block_ids)
          /\ \E found \in OrderedByIndex(block_ids) :
               \/ /\ MergeNotAdjacent(found)
                  /\ last' = Raised("merge_blocks", "BlockMergeError", "not_adjacent")
                  /\ UNCHANGED <<blocks, nextBlockId, assets, nextAssetId, block_assets, elsewhere>>
               \/ /\ ~MergeNotAdjacent(found)
                  /\ Len(MergeSurvivor(found).text) <= MaxTextLen
                  /\ LET absorbed == block_ids \ {found[1]}
                         kept == [b \in BlockIds \ absorbed |->
                                    IF b = found[1] THEN MergeSurvivor(found) ELSE blocks[b]]
                     IN /\ block_assets' = DeleteAssetsOfAll(block_assets, absorbed)
                        /\ \E remaining \in OrderedByIndex(ProjectBlocks(p) \ absorbed) :
                             blocks' = Renumbered(kept, remaining)
                  /\ last' = Call("merge_blocks", found[1], block_ids, 0, 0)
                  /\ UNCHANGED <<nextBlockId, assets, nextAssetId, elsewhere>>

\* An edit that leaves the status as it was.
EditedKeepingStatus(block, text, keywords) ==
  [block EXCEPT !.text = IF text # None THEN text[1] ELSE @,
                !.keywords = IF keywords # None THEN keywords[1] ELSE @]

\* update_block lines 112-124, and the handlers that do the same: the text and
\* the keywords are replaced when given, the status becomes DRAFT.
Edited(block, text, keywords) ==
  [block EXCEPT !.text = IF text # None THEN text[1] ELSE @,
                !.keywords = IF keywords # None THEN keywords[1] ELSE @,
                !.status = DRAFT]

\* An edit that leaves the block's block_assets rows in place.
EditStepKeepingAssets(op, id, text, keywords) ==
  /\ blocks' = [blocks EXCEPT ![id] = Edited(@, text, keywords)]
  /\ last' = Call(op, id, {}, 0, 0)
  /\ UNCHANGED <<nextBlockId, assets, nextAssetId, block_assets, elsewhere>>

\* An edit of block id as a step: the block row and its block_assets rows.
EditStep(op, id, text, keywords) ==
  /\ blocks' = [blocks EXCEPT ![id] = Edited(@, text, keywords)]
  /\ block_assets' = DeleteBlockAssets(block_assets, id)
  /\ last' = Call(op, id, {}, 0, 0)
  /\ UNCHANGED <<nextBlockId, assets, nextAssetId, elsewhere>>

update_block(T, K) ==
  \/ \E id \in BlockIds, text \in Optional(T), keywords \in Optional(K) :
       EditStep("update_block", id, text, keywords)
  \/ BlockNotFound("update_block")

update_block_keywords(K) ==
  \/ \E id \in BlockIds, keywords \in K :
       EditStep("update_block_keywords", id, None, Some(keywords))
  \/ BlockNotFound("update_block_keywords")

update_block_text(T) ==
  \/ \E id \in BlockIds, text \in T :
       EditStep("update_block_text", id, Some(text), None)
  \/ BlockNotFound("update_block_text")

\* ------------------------------------------------------- routers/blocks.py
\* A handler answering with an HTTP error before it has written anything.
HttpError(op, code, why) ==
  /\ last' = Raised(op, code, why)
  /\ UNCHANGED <<blocks, nextBlockId, assets, nextAssetId, block_assets, elsewhere>>

\* The handler's first lookup finds no block: 404.
Http404(op) ==
  \E id \in 1..nextBlockId : id \notin BlockIds /\ HttpError(op, "HTTP404", "block")

\* PUT /blocks/{block_id}
router_update_block(T, K) ==
  \/ \E id \in BlockIds, text \in Optional(T), keywords \in Optional(K) :
       EditStep("router_update_block", id, text, keywords)
  \/ Http404("router_update_block")

\* POST /blocks/{block_id}/extract-keywords
extract_block_keywords(K) ==
  \/ \E id \in BlockIds :
       \/ /\ Strip(blocks[id].text) = <<>>
          /\ HttpError("extract_block_keywords", "HTTP400", "empty_text")
       \/ /\ Strip(blocks[id].text) # <<>>
          /\ \/ HttpError("extract_block_keywords", "HTTP500", "KeywordExtractionError")
             \/ \E keywords \in K :
                  EditStep("extract_block_keywords", id, None, Some(keywords))
  \/ Http404("extract_block_keywords")

\* POST /blocks/{block_id}/generate-text: the generator raises (500, nothing
\* written) or returns the text the handler stores.  The call of lines
\* 520-527 reads request.mode and request.user_guide, which
\* GenerateTextRequest (schemas/block.py lines 89-91) does not declare; that
\* failure is the 500 branch as well.
generate_text_for_block(T) ==
  \/ \E id \in BlockIds :
       \/ HttpError("generate_text_for_block", "HTTP500", "generate_block_text")
       \/ \E generated_text \in T :
            EditStep("generate_text_for_block", id, Some(generated_text), None)
  \/ Http404("generate_text_for_block")

\* POST /blocks/{block_id}/primary
router_set_primary_asset ==
  \/ \E block_id \in BlockIds, asset_id \in AssetIdInputs :
       \/ /\ ~\E r \in DOMAIN block_assets : r.block_id = block_id /\ r.asset_id = asset_id
          /\ HttpError("router_set_primary_asset", "HTTP404", "no_link")
       \/ \E target_ba \in DOMAIN block_assets :
            /\ target_ba.block_id = block_id
            /\ target_ba.asset_id = asset_id
            /\ block_assets' = SetPrimary(block_assets, target_ba)
            /\ blocks' = [blocks EXCEPT ![block_id].status = CUSTOM]
            /\ last' = PrimaryCall("router_set_primary_asset", block_id, asset_id)
            /\ UNCHANGED <<nextBlockId, assets, nextAssetId, elsewhere>>
  \/ Http404("router_set_primary_asset")

\* POST /blocks/{block_id}/match: the existing rows are deleted and committed,
\* then the search runs; it raises, or returns a candidate list.
match_single_block(Lists) ==
  \/ \E block_id \in BlockIds :
       \/ /\ blocks[block_id].keywords = <<>>
          /\ HttpError("match_single_block", "HTTP400", "no_keywords")
       \/ /\ blocks[block_id].keywords # <<>>
          /\ \/ /\ block_assets' = DeleteBlockAssets(block_assets, block_id)
                /\ blocks' = [blocks EXCEPT ![block_id].status = NO_RESULT]
                /\ last' = [Call("match_single_block", block_id, {}, 0, 0)
                              EXCEPT !.res = "HTTP500", !.why = "search"]
                /\ UNCHANGED <<nextBlockId, assets, nextAssetId, elsewhere>>
             \/ \E assets_data \in Lists :
                  LET db == SaveAndLinkAssets(Db, block_id, assets_data, TRUE)
                  IN /\ BagCardinality(db.block_assets) <= MaxLinks
                     /\ WriteDb(db)
                     /\ blocks' = [blocks EXCEPT ![block_id].status =
                                     IF assets_data # <<>> THEN MATCHED ELSE NO_RESULT]
                     /\ last' = Call("match_single_block", block_id, {}, 0, 0)
                     /\ UNCHANGED nextBlockId
  \/ Http404("match_single_block")

\* search_assets_by_keyword lines 349-387: the asset is looked up or created,
\* and a row (not primary, AUTO) is added unless the block has one for it.
SearchLink(db, block_id, asset_data) ==
  LET got == GetOrCreateAsset(db, asset_data.source_url)
      row == [block_id |-> block_id, asset_id |-> got.id, score |-> asset_data.score,
              is_primary |-> FALSE, chosen_by |-> AUTO]
  IN IF \E r \in DOMAIN got.db.block_assets : r.block_id = block_id /\ r.asset_id = got.id
       THEN got.db
       ELSE [got.db EXCEPT !.block_assets = @ (+) SetToBag({row})]

RECURSIVE SearchCandidates(_, _, _, _)
SearchCandidates(db, block_id, assets_data, i) ==
  IF i > Len(assets_data) THEN db
  ELSE SearchCandidates(SearchLink(db, block_id, assets_data[i]), block_id, assets_data, i + 1)

\* POST /blocks/{block_id}/search: the search raises (500, nothing written),
\* or its results are linked and the block is MATCHED when a row was added.
search_assets_by_keyword(Lists) ==
  \/ \E block_id \in BlockIds :
       \/ HttpError("search_assets_by_keyword", "HTTP500", "search")
       \/ \E assets_data \in Lists :
            LET db == SearchCandidates(Db, block_id, assets_data, 1)
            IN /\ BagCardinality(db.block_assets) <= MaxLinks
               /\ WriteDb(db)
               /\ blocks' = IF db.block_assets # block_assets
                              THEN [blocks EXCEPT ![block_id].status = MATCHED]
                              ELSE blocks
               /\ last' = Call("search_assets_by_keyword", block_id, {}, assets_data, 0)
               /\ UNCHANGED nextBlockId
  \/ Http404("search_assets_by_keyword")

\* ------------------------------------------------------ services/matcher.py
\* One result of a stock-media search: its url, its type, and its title, held
\* as the set of keywords the title contains.
SearchResult(u, t, title) == [source_url |-> u, asset_type |-> t, title |-> title]

\* What the search client answers for one keyword: the photos and the videos
\* in the order the service lists them, and whether scoring one of them raises
\* (a result whose title is null).  A client error is an empty list.
Found(photos, videos) == [photos |-> photos, videos |-> videos, raises |-> FALSE]
NothingFound == Found(<<>>, <<>>)
Raising == [photos |-> <<>>, videos |-> <<>>, raises |-> TRUE]

AnswerFor(world, keyword) ==
  IF keyword \in DOMAIN world THEN world[keyword] ELSE NothingFound

\* PexelsClient.search_photos / search_videos: at most per_page results.
search_photos(world, query, per_page) == Prefix(AnswerFor(world, query).photos, per_page)
search_videos(world, query, per_page) == Prefix(AnswerFor(world, query).videos, per_page)

\* Scores in tenths: 1.0, + 0.5 for the keyword in the title, + 0.3 for a
\* video when videos have priority, + 0.1 for an image when they have not.
ScoreBase == 10
TitleBonus == 5
VideoBonus == 3
ImageBonus == 1

calculate_relevance_score(keyword, asset, video_priority) ==
  ScoreBase
  + (IF keyword \in asset.title THEN TitleBonus ELSE 0)
  + (IF video_priority
       THEN (IF asset.asset_type = "VIDEO" THEN VideoBonus ELSE 0)
       ELSE (IF asset.asset_type = "IMAGE" THEN ImageBonus ELSE 0))

\* A search result with its score and the keyword that found it.
Scored(keyword, asset, video_priority) ==
  [source_url |-> asset.source_url, asset_type |-> asset.asset_type, title |-> asset.title,
   score |-> calculate_relevance_score(keyword, asset, video_priority),
   matched_keyword |-> keyword]

ScoreAll(keyword, results, video_priority) ==
  [i \in 1..Len(results) |-> Scored(keyword, results[i], video_priority)]

\* Results fetched per keyword for the preferred type and for the other type.
PerPageMain == 5
PerPageFill == 2

\* all_assets: per keyword, the preferred type's results, then the other's.
RECURSIVE AllAssets(_, _, _, _)
AllAssets(world, keywords, i, video_priority) ==
  IF i > Len(keywords) THEN <<>>
  ELSE LET keyword == keywords[i]
           videos(n) == ScoreAll(keyword, search_videos(world, keyword, n), video_priority)
           photos(n) == ScoreAll(keyword, search_photos(world, keyword, n), video_priority)
       IN (IF video_priority
             THEN videos(PerPageMain) \o photos(PerPageFill)
             ELSE photos(PerPageMain) \o videos(PerPageFill))
          \o AllAssets(world, keywords, i + 1, video_priority)

\* A deduplicate_by_url that keeps every asset that has a url.
KeepAllWithUrl(found, i, seen_urls) ==
  SelectSeq(found, LAMBDA a : a.source_url # "")

\* deduplicate_by_url: the assets from position i on whose url is not empty
\* and not in seen_urls, each url once, first occurrence kept.
RECURSIVE deduplicate_by_url(_, _, _)
deduplicate_by_url(found, i, seen_urls) ==
  IF i > Len(found) THEN <<>>
  ELSE LET url == found[i].source_url
       IN IF url # "" /\ url \notin seen_urls
            THEN <<found[i]>> \o deduplicate_by_url(found, i + 1, seen_urls \cup {url})
            ELSE deduplicate_by_url(found, i + 1, seen_urls)

\* sorted(..., key = score, reverse = True): stable, so assets of equal score
\* keep their order.  InsertByScore puts x behind every asset scored >= x.
RECURSIVE InsertByScore(_, _)
InsertByScore(sorted, x) ==
  IF sorted = <<>> THEN <<x>>
  ELSE IF Head(sorted).score >= x.score
         THEN <<Head(sorted)>> \o InsertByScore(Tail(sorted), x)
         ELSE <<x>> \o sorted

RECURSIVE SortedByScore(_, _)
SortedByScore(found, n) ==
  IF n = 0 THEN <<>> ELSE InsertByScore(SortedByScore(found, n - 1), found[n])

\* match_assets_for_block: whether it raises, and the candidate list it returns.
MatchRaises(world, keywords) ==
  \E i \in 1..Len(keywords) : AnswerFor(world, keywords[i]).raises

MatchAssetsForBlock(world, keywords, max_candidates, video_priority) ==
  LET all_assets == AllAssets(world, keywords, 1, video_priority)
      unique_assets == deduplicate_by_url(all_assets, 1, {})
      sorted_assets == SortedByScore(unique_assets, Len(unique_assets))
  IN Prefix(sorted_assets, max_candidates)

\* ------------------------------------------- services/script_processor.py
\* The LLM's answer to the splitting prompt: the call or the JSON parsing
\* failed, or a list of raw blocks [text, keywords].
LlmFailed == [failed |-> TRUE, blocks |-> <<>>]
LlmBlocks(raw) == [failed |-> FALSE, blocks |-> raw]
Pair(text, keywords) == [text |-> text, keywords |-> keywords]

\* process_script lines 93-115: blocks whose stripped text is empty are
\* skipped; the others keep the stripped text and the first max_keywords of
\* their non-empty keywords.
RECURSIVE Normalised(_, _, _)
Normalised(raw, i, max_keywords) ==
  IF i > Len(raw) THEN <<>>
  ELSE (IF Strip(raw[i].text) = <<>> THEN <<>>
        ELSE << Pair(Strip(raw[i].text),
                     Prefix(SelectSeq(raw[i].keywords, LAMBDA k : k # ""), max_keywords)) >>)
       \o Normalised(raw, i + 1, max_keywords)

\* A process_script that keeps the blocks whose text is blank.
ProcessScriptKeepingBlank(answer, max_keywords) ==
  [raised |-> answer.failed \/ answer.blocks = <<>>,
   blocks |-> [i \in 1..Len(answer.blocks) |->
                 Pair(Strip(answer.blocks[i].text),
                      Prefix(SelectSeq(answer.blocks[i].keywords, LAMBDA k : k # ""),
                             max_keywords))]]

\* process_script: ScriptProcessingError when the call failed, the list is
\* empty or no block is valid (lines 90-91, 117-118, 123-129); else the blocks.
ProcessScript(answer, max_keywords) ==
  LET result == IF answer.failed THEN <<>> ELSE Normalised(answer.blocks, 1, max_keywords)
  IN [raised |-> result = <<>>, blocks |-> result]

\* ------------------------------------- services/project_service.py, routers/projects.py
\* The tables a workflow reads and writes.
WorkflowDb ==
  [blocks |-> blocks, nextBlockId |-> nextBlockId,
   assets |-> assets, nextAssetId |-> nextAssetId, block_assets |-> block_assets]

WriteWorkflowDb(db) ==
  /\ blocks' = db.blocks
  /\ nextBlockId' = db.nextBlockId
  /\ assets' = db.assets
  /\ nextAssetId' = db.nextAssetId
  /\ UNCHANGED elsewhere
  /\ block_assets' = db.block_assets

\* The record of a workflow call: the project, the blocks it created or
\* processed (ids), the splitter's blocks (pos), the search it ran (run),
\* the count it returned (new), the number of blocks the project had (had),
\* the LLM's answer to a split or generate call (answer).
WorkflowCall(op, res, why, project_id, ids, processed_blocks, run, count) ==
  [op |-> op, res |-> res, why |-> why, id |-> 0, ids |-> ids, pos |-> processed_blocks,
   new |-> count, was |-> "", had |-> Cardinality(ProjectBlocks(project_id)), prev |-> 0,
   project |-> project_id, run |-> run, answer |-> [failed |-> FALSE, blocks |-> <<>>]]

\* The search a workflow call ran: the answers of the search service, and the
\* max_candidates and video_priority the call passed to the matcher.
Run(world, max_candidates, video_priority) ==
  [world |-> world, max_candidates |-> max_candidates, video_priority |-> video_priority]
NoRun == Run(<<>>, 0, FALSE)

\* db.query(Block).filter(Block.project_id == project_id).delete(): the
\* blocks rows go; the statement touches no other table.
DeleteProjectBlocks(db, project_id) ==
  [db EXCEPT !.blocks = [b \in {x \in DOMAIN db.blocks : db.blocks[x].project_id # project_id}
                           |-> db.blocks[b]]]

\* block_assets.block_id is a foreign key to blocks.id without ON DELETE: a
\* database that enforces it (PostgreSQL) rejects the delete of a block that
\* has block_assets rows, one that does not (SQLite's default) leaves the rows.
ForeignKeyBlocks(project_id) ==
  \E b \in ProjectBlocks(project_id) : LinksOf(b) # {}

\* db.add(Block(...)); db.commit(): a new row with a fresh id.
AddBlock(db, project_id, key, text, keywords, status) ==
  [db EXCEPT !.blocks = [b \in DOMAIN db.blocks \cup {db.nextBlockId} |->
                           IF b = db.nextBlockId
                             THEN [project_id |-> project_id, index |-> key, text |-> text,
                                   keywords |-> keywords, status |-> status]
                             ELSE db.blocks[b]],
              !.nextBlockId = @ + 1]

\* A split loop that keys every block with the same key.
CreateSplitBlocksOneKey(db, project_id, processed_blocks, idx, first_key) ==
  IF processed_blocks = <<>> THEN db
  ELSE [db EXCEPT
          !.blocks = [b \in DOMAIN db.blocks \cup
                            (db.nextBlockId..(db.nextBlockId + Len(processed_blocks) - 1)) |->
                        IF b \in DOMAIN db.blocks THEN db.blocks[b]
                        ELSE [project_id |-> project_id, index |-> first_key,
                              text |-> processed_blocks[b - db.nextBlockId + 1].text,
                              keywords |-> processed_blocks[b - db.nextBlockId + 1].keywords,
                              status |-> DRAFT]],
          !.nextBlockId = @ + Len(processed_blocks)]

\* The split loop (project_service.py lines 212-223, routers/projects.py
\* lines 328-337): block idx (from 0) gets the key first_key + idx, status DRAFT.
\* ProjectService passes index = idx, the handler order = float(idx + 1).
RECURSIVE CreateSplitBlocks(_, _, _, _, _)
CreateSplitBlocks(db, project_id, processed_blocks, idx, first_key) ==
  IF idx >= Len(processed_blocks) THEN db
  ELSE CreateSplitBlocks(
         AddBlock(db, project_id, first_key + idx, processed_blocks[idx + 1].text,
                  processed_blocks[idx + 1].keywords, DRAFT),
         project_id, processed_blocks, idx + 1, first_key)

\* The candidates the workflow gets for a block: [] when the matcher raised.
AssetsData(world, keywords, max_candidates, video_priority) ==
  IF MatchRaises(world, keywords) THEN <<>>
  ELSE MatchAssetsForBlock(world, keywords, max_candidates, video_priority)

\* The generate loop (project_service.py lines 133-171, routers/projects.py
\* lines 210-251): each block is created PENDING and matched at once, with
\* the matcher's default video_priority = False.
RECURSIVE GenerateBlocks(_, _, _, _, _, _, _)
GenerateBlocks(db, project_id, processed_blocks, idx, first_key, world, max_candidates) ==
  IF idx >= Len(processed_blocks) THEN db
  ELSE LET text == processed_blocks[idx + 1].text
           keywords == processed_blocks[idx + 1].keywords
           block_id == db.nextBlockId
           created == AddBlock(db, project_id, first_key + idx, text, keywords, PENDING)
           assets_data == AssetsData(world, keywords, max_candidates, FALSE)
           done ==
             IF keywords = <<>>
               THEN [created EXCEPT !.blocks[block_id].status = NO_RESULT]
             ELSE IF assets_data # <<>>
               THEN [SaveAndLinkAssets(created, block_id, assets_data, FALSE)
                       EXCEPT !.blocks[block_id].status = MATCHED]
             ELSE [created EXCEPT !.blocks[block_id].status = NO_RESULT]
       IN GenerateBlocks(done, project_id, processed_blocks, idx + 1, first_key,
                         world, max_candidates)

\* A match loop that stops at the first block whose matching raised.
RECURSIVE MatchBlocksAborting(_, _, _, _, _, _)
MatchBlocksAborting(db, ordered, i, world, max_candidates, video_priority) ==
  IF i > Len(ordered) THEN [db |-> db, matched_count |-> 0]
  ELSE IF MatchRaises(world, db.blocks[ordered[i]].keywords)
         /\ db.blocks[ordered[i]].keywords # <<>>
    THEN [db |-> db, matched_count |-> 0]
  ELSE LET block_id == ordered[i]
           keywords == db.blocks[block_id].keywords
           assets_data == AssetsData(world, keywords, max_candidates, video_priority)
           matched == keywords # <<>> /\ assets_data # <<>>
           done ==
             IF matched
               THEN [SaveAndLinkAssets(db, block_id, assets_data, TRUE)
                       EXCEPT !.blocks[block_id].status = MATCHED]
               ELSE [db EXCEPT !.block_assets = DeleteBlockAssets(@, block_id),
                               !.blocks[block_id].status = NO_RESULT]
           rest == MatchBlocksAborting(done, ordered, i + 1, world, max_candidates,
                                       video_priority)
       IN [db |-> rest.db,
           matched_count |-> rest.matched_count + (IF matched THEN 1 ELSE 0)]

\* A match loop that leaves the rows of a block it could not match.
RECURSIVE MatchBlocksKeepingRows(_, _, _, _, _, _)
MatchBlocksKeepingRows(db, ordered, i, world, max_candidates, video_priority) ==
  IF i > Len(ordered) THEN [db |-> db, matched_count |-> 0]
  ELSE LET block_id == ordered[i]
           keywords == db.blocks[block_id].keywords
           assets_data == AssetsData(world, keywords, max_candidates, video_priority)
           matched == keywords # <<>> /\ assets_data # <<>>
           done ==
             IF matched
               THEN [SaveAndLinkAssets(db, block_id, assets_data, TRUE)
                       EXCEPT !.blocks[block_id].status = MATCHED]
               ELSE [db EXCEPT !.blocks[block_id].status = NO_RESULT]
           rest == MatchBlocksKeepingRows(done, ordered, i + 1, world, max_candidates,
                                          video_priority)
       IN [db |-> rest.db,
           matched_count |-> rest.matched_count + (IF matched THEN 1 ELSE 0)]

\* The match loop (project_service.py lines 264-295, routers/projects.py
\* lines 398-431) over the blocks in key order: a block without keywords or
\* without candidates loses its rows and becomes NO_RESULT; the others get
\* the candidates in clear-existing mode and become MATCHED.
RECURSIVE MatchBlocks(_, _, _, _, _, _)
MatchBlocks(db, ordered, i, world, max_candidates, video_priority) ==
  IF i > Len(ordered) THEN [db |-> db, matched_count |-> 0]
  ELSE LET block_id == ordered[i]
           keywords == db.blocks[block_id].keywords
           assets_data == AssetsData(world, keywords, max_candidates, video_priority)
           matched == keywords # <<>> /\ assets_data # <<>>
           done ==
             IF matched
               THEN [SaveAndLinkAssets(db, block_id, assets_data, TRUE)
                       EXCEPT !.blocks[block_id].status = MATCHED]
               ELSE [db EXCEPT !.block_assets = DeleteBlockAssets(@, block_id),
                               !.blocks[block_id].status = NO_RESULT]
           rest == MatchBlocks(done, ordered, i + 1, world, max_candidates, video_priority)
       IN [db |-> rest.db,
           matched_count |-> rest.matched_count + (IF matched THEN 1 ELSE 0)]

\* process_script's default max_keywords, SplitOptions' default too.
DefaultMaxKeywords == 5
\* ProjectService's default max_candidates; the handlers' default
\* (GenerateOptions, MatchOptions, settings.max_candidates_per_block).
ServiceMaxCandidates == 5
HandlerMaxCandidates == 10

\* Both split workflows: the project's blocks are deleted and the delete is
\* committed, then the splitter runs, then the blocks are created.
SplitWorkflow(op, project_id, answer, first_key, error, empty, N) ==
  \/ /\ ForeignKeyBlocks(project_id)
     /\ last' = WorkflowCall(op, "IntegrityError", "delete", project_id, {}, <<>>, NoRun, 0)
     /\ UNCHANGED <<blocks, nextBlockId, assets, nextAssetId, block_assets, elsewhere>>
  \/ LET deleted == DeleteProjectBlocks(WorkflowDb, project_id)
         processed == ProcessScript(answer, DefaultMaxKeywords)
         db == CreateSplitBlocks(deleted, project_id, processed.blocks, 0, first_key)
     IN IF processed.raised \/ processed.blocks = <<>>
          THEN /\ WriteWorkflowDb(deleted)
               /\ last' = [WorkflowCall(op, IF processed.raised THEN error ELSE empty,
                                        "process_script", project_id, {}, <<>>, NoRun, 0)
                             EXCEPT !.answer = answer]
          ELSE /\ db.nextBlockId <= N + 1
               /\ WriteWorkflowDb(db)
               /\ last' = [WorkflowCall(op, "ok", "", project_id,
                                        nextBlockId..(db.nextBlockId - 1), processed.blocks,
                                        NoRun, Len(processed.blocks))
                             EXCEPT !.answer = answer]

\* ProjectService.split_script: index = idx; ScriptProcessingError propagates,
\* an empty splitter result is returned as [].
split_script(P, Answers, N) ==
  \E project_id \in P, answer \in Answers :
    SplitWorkflow("split_script", project_id, answer, 0, "ScriptProcessingError", "ok", N)

\* POST /projects/{id}/split: order = float(idx + 1); ScriptProcessingError
\* becomes 500, an empty splitter result 400.
router_split_script(P, Answers, N) ==
  \E project_id \in P, answer \in Answers :
    SplitWorkflow("router_split_script", project_id, answer, GAP, "HTTP500", "HTTP400", N)

\* Both generate workflows.
GenerateWorkflow(op, project_id, answer, world, first_key, max_candidates, error, empty, N) ==
  \/ /\ ForeignKeyBlocks(project_id)
     /\ last' = WorkflowCall(op, "IntegrityError", "delete", project_id, {}, <<>>, NoRun, 0)
     /\ UNCHANGED <<blocks, nextBlockId, assets, nextAssetId, block_assets, elsewhere>>
  \/ LET deleted == DeleteProjectBlocks(WorkflowDb, project_id)
         processed == ProcessScript(answer, DefaultMaxKeywords)
         db == GenerateBlocks(deleted, project_id, processed.blocks, 0, first_key,
                              world, max_candidates)
     IN IF processed.raised \/ processed.blocks = <<>>
          THEN /\ WriteWorkflowDb(deleted)
               /\ last' = [WorkflowCall(op, IF processed.raised THEN error ELSE empty,
                                        "process_script", project_id, {}, <<>>, NoRun, 0)
                             EXCEPT !.answer = answer]
          ELSE /\ db.nextBlockId <= N + 1
               /\ WriteWorkflowDb(db)
               /\ last' = [WorkflowCall(op, "ok", "", project_id,
                                        nextBlockId..(db.nextBlockId - 1), processed.blocks,
                                        Run(world, max_candidates, FALSE),
                                        Len(processed.blocks))
                             EXCEPT !.answer = answer]

\* ProjectService.generate_visuals
generate_visuals(P, Answers, Worlds, N) ==
  \E project_id \in P, answer \in Answers, world \in Worlds :
    GenerateWorkflow("generate_visuals", project_id, answer, world, 0,
                     ServiceMaxCandidates, "ScriptProcessingError", "ok", N)

\* POST /projects/{id}/generate
router_generate_visuals(P, Answers, Worlds, N) ==
  \E project_id \in P, answer \in Answers, world \in Worlds :
    GenerateWorkflow("router_generate_visuals", project_id, answer, world, GAP,
                     HandlerMaxCandidates, "HTTP500", "HTTP400", N)

\* ProjectService.match_all_blocks: returns matched_count (0 without blocks).
match_all_blocks(P, Worlds) ==
  \E project_id \in P, world \in Worlds, video_priority \in BOOLEAN :
    \E ordered \in OrderedByIndex(ProjectBlocks(project_id)) :
      LET matched == MatchBlocks(WorkflowDb, ordered, 1, world, ServiceMaxCandidates,
                                 video_priority)
      IN /\ WriteWorkflowDb(matched.db)
         /\ last' = WorkflowCall("match_all_blocks", "ok", "", project_id,
                                 ProjectBlocks(project_id), <<>>,
                                 Run(world, ServiceMaxCandidates, video_priority),
                                 matched.matched_count)

\* POST /projects/{id}/match: 400 without blocks; the response carries
\* blocks_count = len(blocks), and matched_count in its message (why).
router_match_assets(P, Worlds) ==
  \E project_id \in P :
    \/ /\ ProjectBlocks(project_id) = {}
       /\ last' = WorkflowCall("router_match_assets", "HTTP400", "no_blocks", project_id,
                               {}, <<>>, NoRun, 0)
       /\ UNCHANGED <<blocks, nextBlockId, assets, nextAssetId, block_assets, elsewhere>>
    \/ /\ ProjectBlocks(project_id) # {}
       /\ \E world \in Worlds, video_priority \in BOOLEAN :
            \E ordered \in OrderedByIndex(ProjectBlocks(project_id)) :
              LET matched == MatchBlocks(WorkflowDb, ordered, 1, world, HandlerMaxCandidates,
                                         video_priority)
              IN /\ WriteWorkflowDb(matched.db)
                 /\ last' = WorkflowCall("router_match_assets", "ok", matched.matched_count,
                                         project_id, ProjectBlocks(project_id), <<>>,
                                         Run(world, HandlerMaxCandidates, video_priority),
                                         Len(ordered))

\* A delete_project that also deletes the assets its blocks were linked to.
DeleteProjectWithAssets(db, project_id) ==
  LET gone == {b \in DOMAIN db.blocks : db.blocks[b].project_id = project_id}
      linked == {r.asset_id : r \in {x \in DOMAIN db.block_assets : x.block_id \in gone}}
  IN [db EXCEPT
        !.block_assets = [r \in {x \in DOMAIN db.block_assets : x.block_id \notin gone} |->
                            db.block_assets[r]],
        !.blocks = [b \in DOMAIN db.blocks \ gone |-> db.blocks[b]],
        !.assets = {a \in db.assets : a.id \notin linked}]

\* delete_project lines 80-89: the block_assets rows of the project's blocks,
\* then the blocks (then the project row, which the tables here do not hold).
DeleteProject(db, project_id) ==
  LET gone == {b \in DOMAIN db.blocks : db.blocks[b].project_id = project_id}
  IN [db EXCEPT
        !.block_assets = [r \in {x \in DOMAIN db.block_assets : x.block_id \notin gone} |->
                            db.block_assets[r]],
        !.blocks = [b \in DOMAIN db.blocks \ gone |-> db.blocks[b]]]

delete_project(P) ==
  \E project_id \in P :
    /\ WriteWorkflowDb(DeleteProject(WorkflowDb, project_id))
    /\ last' = WorkflowCall("delete_project", "ok", "", project_id,
                            ProjectBlocks(project_id), <<>>, NoRun, 0)

\* DELETE /projects/{id} calls delete_project(db, project_id, current_user.id),
\* one argument more than ProjectService.delete_project takes: TypeError, 500.
router_delete_project(P) ==
  \E project_id \in P :
    /\ last' = WorkflowCall("router_delete_project", "HTTP500", "TypeError", project_id,
                            {}, <<>>, NoRun, 0)
    /\ UNCHANGED <<blocks, nextBlockId, assets, nextAssetId, block_assets, elsewhere>>

\* ------------------------------------------------------ workflow inputs
\* The ids the workflows may allocate.
MaxWorkflowIds == 3

\* The search service's listing: k1 finds an image and a video, k2 finds the
\* same image again, titled with the keyword; other keywords find nothing.
Catalog ==
  [k \in {"k1", "k2"} |->
     IF k = "k1"
       THEN Found(<<SearchResult("u1", "IMAGE", {})>>, <<SearchResult("u2", "VIDEO", {})>>)
       ELSE Found(<<SearchResult("u1", "IMAGE", {"k2"})>>, <<>>)]

\* What the search service may answer during one workflow call: per keyword
\* its listing, nothing (a client error), or a result whose scoring raises.
Worlds ==
  { Catalog,
    [k \in DOMAIN Catalog |-> NothingFound],
    [Catalog EXCEPT !["k1"] = Raising] }

\* What the LLM may answer: a failure, no block, only a blank block, and
\* lists of one and two valid blocks (one with a blank block to skip, an
\* empty keyword to drop and more than max_keywords keywords).
LlmAnswers ==
  { LlmFailed,
    LlmBlocks(<<>>),
    LlmBlocks(<< Pair(<<" ">>, <<"k1">>) >>),
    LlmBlocks(<< Pair(<<"a", " ">>, <<"k1">>) >>),
    LlmBlocks(<< Pair(<<"a">>, <<"k1", "k2">>), Pair(<<"b">>, <<>>) >>),
    LlmBlocks(<< Pair(<<"a">>, <<"k1", "", "k3", "k4", "k5", "k6", "k7">>),
                 Pair(<<" ">>, <<"k1">>), Pair(<<"b">>, <<"k2">>) >>) }

\* --------------------------------------------------- calls running together
\* Requests served at the same time (worker processes on one database).
MaxRequests == 2

RequestIds == 1..MaxRequests

\* A step of a request: the call record names the operation, the request and
\* the statement it ran.
RequestStep(op, r, statement) ==
  [Raised(op, "ok", statement) EXCEPT !.id = r]

\* save_and_link_assets(db, block_id, assets_data, clear_existing=True), as a
\* Match runs it for a block, statement by statement.  Lines 94-96: the rows
\* of the block are deleted and the delete is committed.
reconcile_begin(Lists) ==
  \E r \in RequestIds \ DOMAIN requests, block_id \in BlockIds, assets_data \in Lists :
    /\ assets_data # <<>>
    /\ \A q \in DOMAIN requests : requests[q].block_id # block_id
    /\ block_assets' = DeleteBlockAssets(block_assets, block_id)
    /\ requests' = [q \in DOMAIN requests \cup {r} |->
                      IF q = r
                        THEN [op |-> "save_and_link_assets", block_id |-> block_id,
                              assets_data |-> assets_data, i |-> 1, pc |-> "lookup",
                              pending |-> <<>>]
                        ELSE requests[q]]
    /\ last' = RequestStep("save_and_link_assets", r, "clear")
    /\ UNCHANGED <<blocks, nextBlockId, assets, nextAssetId, qa_tasks, qa_versions>>

\* The request after candidate i got the asset asset_id: the row is added to
\* the session (lines 103-110) and the loop goes on, or ends.
Linked(request, asset_id) ==
  [request EXCEPT
     !.pending = Append(@, NewLink(request.block_id, asset_id,
                                   request.assets_data[request.i], request.i)),
     !.i = @ + 1,
     !.pc = IF request.i = Len(request.assets_data) THEN "commit" ELSE "lookup"]

\* get_or_create_asset lines 49-55: SELECT ... WHERE source_url = ...; an
\* asset that is found is returned, one that is not is created next.
reconcile_lookup ==
  \E r \in DOMAIN requests :
    LET request == requests[r]
        source_url == request.assets_data[request.i].source_url
    IN /\ request.pc = "lookup"
       /\ requests' =
            [requests EXCEPT ![r] =
               IF \E a \in assets : a.source_url = source_url
                 THEN Linked(request, (CHOOSE a \in assets : a.source_url = source_url).id)
                 ELSE [request EXCEPT !.pc = "insert"]]
       /\ last' = RequestStep("save_and_link_assets", r, "lookup")
       /\ UNCHANGED <<blocks, nextBlockId, assets, nextAssetId, block_assets,
                      qa_tasks, qa_versions>>

\* The rows a commit of the request's session writes: those added so far.
Flushed(ba, pending) ==
  ba (+) [row \in {pending[i] : i \in 1..Len(pending)} |->
            Cardinality({i \in 1..Len(pending) : pending[i] = row})]

\* get_or_create_asset lines 58-70: db.add(Asset(...)); db.commit().  The
\* commit also writes the rows the session holds.
reconcile_insert ==
  \E r \in DOMAIN requests :
    LET request == requests[r]
        source_url == request.assets_data[request.i].source_url
    IN /\ request.pc = "insert"
       /\ assets' = assets \cup {[id |-> nextAssetId, source_url |-> source_url]}
       /\ nextAssetId' = nextAssetId + 1
       /\ block_assets' = Flushed(block_assets, request.pending)
       /\ requests' = [requests EXCEPT ![r] = Linked([request EXCEPT !.pending = <<>>],
                                                     nextAssetId)]
       /\ last' = RequestStep("save_and_link_assets", r, "insert")
       /\ UNCHANGED <<blocks, nextBlockId, qa_tasks, qa_versions>>

\* save_and_link_assets line 113: db.commit().
reconcile_commit ==
  \E r \in DOMAIN requests :
    /\ requests[r].pc = "commit"
    /\ block_assets' = Flushed(block_assets, requests[r].pending)
    /\ requests' = [requests EXCEPT ![r].pending = <<>>, ![r].pc = "done"]
    /\ last' = RequestStep("save_and_link_assets", r, "commit")
    /\ UNCHANGED <<blocks, nextBlockId, assets, nextAssetId, qa_tasks, qa_versions>>

\* The requests table with request r added, and with request r gone.
Started(r, request) ==
  [q \in DOMAIN requests \cup {r} |-> IF q = r THEN request ELSE requests[q]]

Finished(r) == [q \in DOMAIN requests \ {r} |-> requests[q]]

\* create_block lines 75-83: the blocks at insert_at or later move up by one;
\* db.commit().
create_block_shift(P, T, K, I, N) ==
  \E r \in RequestIds \ DOMAIN requests, p \in P, text \in T, keywords \in K, insert_at \in I :
    /\ nextBlockId + Cardinality({q \in DOMAIN requests : requests[q].pc = "insert"}) <= N
    /\ blocks' = [b \in BlockIds |->
                    IF blocks[b].project_id = p /\ blocks[b].index >= insert_at
                      THEN [blocks[b] EXCEPT !.index = @ + 1] ELSE blocks[b]]
    /\ requests' = Started(r, [op |-> "create_block", pc |-> "insert", block_id |-> 0,
                               project_id |-> p,
                               text |-> text, keywords |-> keywords,
                               insert_at |-> insert_at])
    /\ last' = RequestStep("create_block", r, "shift")
    /\ UNCHANGED <<nextBlockId, assets, nextAssetId, block_assets, qa_tasks, qa_versions>>

\* create_block lines 86-95: the new block at insert_at; db.commit().
create_block_insert ==
  \E r \in DOMAIN requests :
    LET request == requests[r]
    IN /\ request.op = "create_block" /\ request.pc = "insert"
       /\ blocks' = CreateBlockRowsNoShift(request.project_id, request.text,
                                           request.keywords, request.insert_at)
       /\ nextBlockId' = nextBlockId + 1
       /\ requests' = Finished(r)
       /\ last' = RequestStep("create_block", r, "insert")
       /\ UNCHANGED <<assets, nextAssetId, block_assets, qa_tasks, qa_versions>>

\* delete_block lines 138-147: the block's rows and the block are deleted;
\* db.commit().  project_id and deleted_index are locals.
delete_block_delete ==
  \E r \in RequestIds \ DOMAIN requests, id \in BlockIds :
    /\ \A q \in DOMAIN requests : requests[q].block_id # id
    /\ block_assets' = DeleteBlockAssets(block_assets, id)
    /\ blocks' = [b \in BlockIds \ {id} |-> blocks[b]]
    /\ requests' = Started(r, [op |-> "delete_block", pc |-> "shift", block_id |-> id,
                               project_id |-> blocks[id].project_id,
                               deleted_index |-> blocks[id].index])
    /\ last' = RequestStep("delete_block", r, "delete")
    /\ UNCHANGED <<nextBlockId, assets, nextAssetId, qa_tasks, qa_versions>>

\* delete_block lines 150-158: the blocks after deleted_index move down by
\* one; db.commit().
delete_block_shift ==
  \E r \in DOMAIN requests :
    LET request == requests[r]
    IN /\ request.op = "delete_block" /\ request.pc = "shift"
       /\ blocks' = [b \in BlockIds |->
                       IF /\ blocks[b].project_id = request.project_id
                          /\ blocks[b].index > request.deleted_index
                         THEN [blocks[b] EXCEPT !.index = @ - 1] ELSE blocks[b]]
       /\ requests' = Finished(r)
       /\ last' = RequestStep("delete_block", r, "shift")
       /\ UNCHANGED <<nextBlockId, assets, nextAssetId, block_assets, qa_tasks, qa_versions>>

\* split_block lines 188-224: the position is checked, the block's rows are
\* deleted, the first half is written and the second half is added at
\* index + 1; db.commit().
split_block_add(N) ==
  \E r \in RequestIds \ DOMAIN requests, id \in BlockIds :
    \E position \in (-1)..(Len(blocks[id].text) + 1) :
      /\ \A q \in DOMAIN requests : requests[q].block_id # id
      /\ \/ /\ SplitBadPosition(blocks[id].text, position)
            /\ last' = Raised("split_block", "BlockSplitError", "position")
            /\ UNCHANGED <<blocks, nextBlockId, block_assets, requests>>
         \/ /\ ~SplitBadPosition(blocks[id].text, position)
            /\ SplitEmptyHalf(blocks[id].text, position)
            /\ last' = Raised("split_block", "BlockSplitError", "empty_half")
            /\ UNCHANGED <<blocks, nextBlockId, block_assets, requests>>
         \/ /\ ~SplitBadPosition(blocks[id].text, position)
            /\ ~SplitEmptyHalf(blocks[id].text, position)
            /\ nextBlockId + Cardinality({q \in DOMAIN requests : requests[q].pc = "insert"}) <= N
            /\ block_assets' = DeleteBlockAssets(block_assets, id)
            /\ blocks' = [b \in BlockIds \cup {nextBlockId} |->
                            IF b \in {id, nextBlockId} THEN SplitBlockRows(id, position)[b]
                            ELSE blocks[b]]
            /\ nextBlockId' = nextBlockId + 1
            /\ requests' = Started(r, [op |-> "split_block", pc |-> "shift", block_id |-> id,
                                       new_block |-> nextBlockId])
            /\ last' = RequestStep("split_block", r, "add")
      /\ UNCHANGED <<assets, nextAssetId, qa_tasks, qa_versions>>

\* split_block lines 227-236: the blocks after the split block, the new one
\* excepted, move up by one; db.commit().  block.index is read again after
\* the commit; the block may be gone by then (the refresh raises).
split_block_shift ==
  \E r \in DOMAIN requests :
    LET request == requests[r]
    IN /\ request.op = "split_block" /\ request.pc = "shift"
       /\ IF request.block_id \in BlockIds
            THEN /\ blocks' = [b \in BlockIds |->
                                 IF /\ blocks[b].project_id = blocks[request.block_id].project_id
                                    /\ blocks[b].index > blocks[request.block_id].index
                                    /\ b # request.new_block
                                   THEN [blocks[b] EXCEPT !.index = @ + 1] ELSE blocks[b]]
                 /\ last' = RequestStep("split_block", r, "shift")
            ELSE /\ UNCHANGED blocks
                 /\ last' = [RequestStep("split_block", r, "shift")
                               EXCEPT !.res = "ObjectDeletedError"]
       /\ requests' = Finished(r)
       /\ UNCHANGED <<nextBlockId, assets, nextAssetId, block_assets, qa_tasks, qa_versions>>

\* ---------------------------------------------------------------- reindex
\* reindex_blocks lines 392-393: block.index = new_idx for new_idx, block in
\* enumerate(blocks), the blocks of the project listed by index.
ReindexRows(ordered) ==
  [b \in BlockIds |->
     IF \E i \in 1..Len(ordered) : ordered[i] = b
       THEN [blocks[b] EXCEPT !.index = (CHOOSE i \in 1..Len(ordered) : ordered[i] = b) - 1]
       ELSE blocks[b]]

reindex_blocks(P) ==
  \E project_id \in P :
    \E ordered \in OrderedByIndex(ProjectBlocks(project_id)) :
      /\ blocks' = ReindexRows(ordered)
      /\ last' = [Raised("reindex_blocks", "ok", "")
                    EXCEPT !.ids = ProjectBlocks(project_id), !.pos = ordered]
      /\ UNCHANGED <<nextBlockId, assets, nextAssetId, block_assets, elsewhere>>

\* -------------------------------------------------------------- order keys
\* Blocks of one project a fresh order key is allocated in.
MaxOrderBlocks == 5
\* Halvings of the unit step an order key may have gone through.
MaxHalvings == 3
\* Blocks of the project the order column is first filled for.
MaxStored == 2

\* Block.order is a Float (models/block.py line 29).  It is held here in units
\* of 1/OrderUnit, so that every key up to MaxHalvings halvings of GAP is an
\* integer; the guard of insert_block keeps each division exact, as it is for
\* a binary float within its precision.
OrderUnit == 2 ^ MaxHalvings

Float(n) == n * OrderUnit

\* The order column after migration m003: UPDATE blocks SET "order" =
\* CAST("index" AS FLOAT), over rows whose index is the 0-based idx of
\* Block(index=idx) and of reindex_blocks.
run_migration(n) ==
  [b \in 1..n |-> [project_id |-> "p1", order |-> Float(b - 1), text |-> <<"a">>,
                   keywords |-> <<>>, status |-> "DRAFT"]]

\* The order column the Split handler writes: order=float(idx + 1).
RouterSplitOrders(n) ==
  [b \in 1..n |-> [project_id |-> "p1", order |-> Float(b - 1 + GAP), text |-> <<"a">>,
                   keywords |-> <<>>, status |-> "DRAFT"]]

InitOrder ==
  /\ \E n \in 0..MaxStored : blocks \in {run_migration(n), RouterSplitOrders(n)}
  /\ nextBlockId = Len(blocks) + 1
  /\ assets = {}
  /\ nextAssetId = 1
  /\ requests = << >>
  /\ qa_tasks = << >>
  /\ qa_versions = {}
  /\ block_assets = EmptyBag
  /\ last = Raised("init", "ok", "")

\* The blocks of a project by order (ORDER BY "order"; ties by id).
RECURSIVE ByOrder(_)
ByOrder(ids) ==
  IF ids = {} THEN <<>>
  ELSE LET first == CHOOSE b \in ids :
                      \A c \in ids : \/ blocks[b].order < blocks[c].order
                                     \/ blocks[b].order = blocks[c].order /\ b <= c
       IN <<first>> \o ByOrder(ids \ {first})

\* OrderKeyAllocator.allocate_between.
allocate_between(low, high) ==
  IF low # None /\ high # None THEN (low[1] + high[1]) \div 2
  ELSE IF low # None THEN low[1] + Float(GAP)
  ELSE IF high # None THEN high[1] \div 2
  ELSE Float(GAP)

\* The divisions of allocate_between(low, high) are exact.
Representable(low, high) ==
  IF low # None /\ high # None THEN (low[1] + high[1]) % 2 = 0
  ELSE high # None => high[1] % 2 = 0

OrderCall(id, position, low, high, order) ==
  [op |-> "insert_block", res |-> "ok", why |-> "", id |-> id, ids |-> {}, pos |-> position,
   new |-> id, was |-> "", had |-> 0, prev |-> 0, low |-> low, high |-> high, order |-> order]

\* A block inserted at a position of the project: its order is allocated
\* between the neighbours of the position; no other block is written.
insert_block(P, N) ==
  \E project_id \in P :
    LET ordered == ByOrder({b \in DOMAIN blocks : blocks[b].project_id = project_id})
    IN \E position \in 0..Len(ordered) :
         LET low == IF position = 0 THEN None ELSE Some(blocks[ordered[position]].order)
             high == IF position = Len(ordered) THEN None
                     ELSE Some(blocks[ordered[position + 1]].order)
             order == allocate_between(low, high)
         IN /\ nextBlockId <= N
            /\ Representable(low, high)
            /\ blocks' = [b \in DOMAIN blocks \cup {nextBlockId} |->
                            IF b = nextBlockId
                              THEN [project_id |-> project_id, order |-> order,
                                    text |-> <<"a">>, keywords |-> <<>>, status |-> "DRAFT"]
                              ELSE blocks[b]]
            /\ nextBlockId' = nextBlockId + 1
            /\ last' = OrderCall(nextBlockId, position, low, high, order)
            /\ UNCHANGED <<assets, nextAssetId, block_assets, elsewhere>>

\* ------------------------------------------------------------ specifications
\* Block lifecycle of BlockService: positions, texts and keywords.
Next ==
  \/ create_block(Projects, TextInputs, KeywordInputs, 0..MaxInsertAt, MaxBlockIds)
  \/ delete_block
  \/ split_block(MaxBlockIds)
  \/ merge_blocks(3)

Spec == Init /\ [][Next]_vars

\* Blocks of one project together with their candidate assets: linking,
\* choosing a primary, matching, and splits and merges of blocks that have
\* block_assets rows.
NextAssets ==
  \/ create_block({"p1"}, TextInputs, KeywordInputs, {0}, MaxCreated)
  \/ split_block(MaxLinkedIds)
  \/ merge_blocks(2)
  \/ update_block_text(TextInputs)
  \/ save_and_link_assets(CandidateLists)
  \/ add_asset_to_block(CandidateInputs)
  \/ set_primary_asset
  \/ match_single_block(CandidateLists)

SpecAssets == Init /\ [][NextAssets]_vars

\* The edit paths of a block that has been matched or given a primary asset.
NextEdits ==
  \/ create_block({"p1"}, TextInputs, KeywordInputs, {0}, MaxCreated)
  \/ match_single_block(CandidateLists)
  \/ router_set_primary_asset
  \/ update_block(EditTexts, EditKeywords)
  \/ update_block_keywords(EditKeywords)
  \/ update_block_text(EditTexts)
  \/ router_update_block(EditTexts, EditKeywords)
  \/ extract_block_keywords(EditKeywords)
  \/ generate_text_for_block(EditTexts)

SpecEdits == Init /\ [][NextEdits]_vars

\* Merges of blocks of one project whose keyword lists overlap and add up to
\* more than the cap.
NextMerge ==
  \/ create_block({"p1"}, MergeTexts, MergeKeywordInputs, 0..MaxInsertAt, MaxBlockIds)
  \/ delete_block
  \/ merge_blocks(3)

SpecMerge == Init /\ [][NextMerge]_vars

\* Merges of blocks that have been matched and have block_assets rows.
NextMergeAssets ==
  \/ create_block({"p1"}, MergeTexts, KeywordInputs, 0..MaxInsertAt, MaxBlockIds)
  \/ match_single_block(CandidateLists)
  \/ merge_blocks(3)

SpecMergeAssets == Init /\ [][NextMergeAssets]_vars

\* The reconciler and the handlers that link assets, on two blocks.
NextReconcile ==
  \/ create_block({"p1"}, TextInputs, KeywordInputs, {0}, MaxLinkedIds)
  \/ get_or_create_asset(UrlInputs)
  \/ save_and_link_assets(CandidateLists)
  \/ add_asset_to_block(CandidateInputs)
  \/ set_primary_asset
  \/ router_set_primary_asset
  \/ match_single_block(CandidateLists)
  \/ search_assets_by_keyword(SearchLists)

SpecReconcile == Init /\ [][NextReconcile]_vars

\* A call of match_assets_for_block by itself: its arguments and its result.
MatcherCall(res, keywords, run, result) ==
  [op |-> "match_assets_for_block", res |-> res, why |-> "", id |-> 0, ids |-> {},
   pos |-> result, new |-> 0, was |-> "", had |-> 0, prev |-> 0,
   keywords |-> keywords, run |-> run]

match_assets_for_block(Answers, Keywords, MaxCandidates) ==
  \E world \in Answers, keywords \in Keywords, max_candidates \in 1..MaxCandidates,
     video_priority \in BOOLEAN :
    /\ last' = IF MatchRaises(world, keywords)
                 THEN MatcherCall("AttributeError", keywords,
                                  Run(world, max_candidates, video_priority), <<>>)
                 ELSE MatcherCall("ok", keywords, Run(world, max_candidates, video_priority),
                                  MatchAssetsForBlock(world, keywords, max_candidates,
                                                      video_priority))
    /\ UNCHANGED <<blocks, nextBlockId, assets, nextAssetId, block_assets, elsewhere>>

\* The largest max_candidates a caller of the matcher passes.
MaxCandidatesAsked == 4

\* Search answers for the matcher alone: listings that repeat a url within a
\* keyword and across keywords, hold a result without url, tie on the score
\* and are longer than the fill page.
BusyCatalog ==
  [k \in {"k1", "k2"} |->
     IF k = "k1"
       THEN Found(<<SearchResult("u1", "IMAGE", {"k1"}), SearchResult("u3", "IMAGE", {}),
                    SearchResult("u1", "IMAGE", {}), SearchResult("u4", "IMAGE", {})>>,
                  <<SearchResult("u2", "VIDEO", {}), SearchResult("", "VIDEO", {"k1"}),
                    SearchResult("u5", "VIDEO", {"k1"})>>)
       ELSE Found(<<SearchResult("u3", "IMAGE", {"k2"}), SearchResult("u1", "IMAGE", {})>>,
                  <<SearchResult("u2", "VIDEO", {"k2"}), SearchResult("u6", "VIDEO", {}),
                    SearchResult("u7", "VIDEO", {"k2"})>>)]

MatcherWorlds ==
  { Catalog, BusyCatalog, [BusyCatalog EXCEPT !["k1"] = NothingFound],
    [BusyCatalog EXCEPT !["k2"] = Raising] }

MatcherKeywords ==
  { <<>>, <<"k1">>, <<"k2">>, <<"k1", "k2">>, <<"k2", "k1">>, <<"k1", "k1">>, <<"k3", "k2">> }

\* match_assets_for_block by itself.
NextMatcher ==
  match_assets_for_block(MatcherWorlds, MatcherKeywords, MaxCandidatesAsked)

SpecMatcher == Init /\ [][NextMatcher]_vars

\* Insertions into a project whose order column is filled.
NextOrder == insert_block({"p1"}, MaxOrderBlocks)

SpecOrder == InitOrder /\ [][NextOrder]_vars

\* Projects whose indices have gaps (create_block past the end, an index
\* that starts above 0), renumbered by reindex_blocks.
NextReindex ==
  \/ create_block(Projects, TextInputs, KeywordInputs, 0..MaxInsertAt, MaxBlockIds)
  \/ match_single_block({<<Candidate("u1", 2)>>})
  \/ delete_block
  \/ reindex_blocks(Projects)

SpecReindex == Init /\ [][NextReindex]_vars

\* The splitter's answers in the lifetime of a project: a failure, or two blocks.
LifetimeAnswers ==
  { LlmFailed, LlmBlocks(<<Pair(<<"a">>, <<"k1", "k2">>), Pair(<<"b">>, <<>>)>>) }

\* Every operation that removes blocks or block_assets rows, on one project
\* whose blocks have assets: edits, split, merge, delete_block, the
\* reconciler, the workflows and delete_project.
NextLifetime ==
  \/ create_block({"p1"}, TextInputs, KeywordInputs, {0}, MaxCreated)
  \/ update_block_text(TextInputs)
  \/ split_block(MaxLinkedIds)
  \/ merge_blocks(2)
  \/ delete_block
  \/ save_and_link_assets(CandidateLists)
  \/ router_split_script({"p1"}, LifetimeAnswers, MaxWorkflowIds)
  \/ router_match_assets({"p1"}, {Catalog})
  \/ router_generate_visuals({"p1"}, LifetimeAnswers, {Catalog}, MaxWorkflowIds)
  \/ delete_project({"p1"})
  \/ router_delete_project({"p1"})

SpecLifetime == Init /\ [][NextLifetime]_vars

\* Every operation that sets a block's status or writes its block_assets
\* rows, on one project: the handlers of a block, the edits, split, merge and
\* delete, and the Match and Generate handlers.
NextStatus ==
  \/ create_block({"p1"}, TextInputs, KeywordInputs, {0}, MaxCreated)
  \/ match_single_block(CandidateLists)
  \/ search_assets_by_keyword(SearchLists)
  \/ router_set_primary_asset
  \/ update_block_text(TextInputs)
  \/ split_block(MaxLinkedIds)
  \/ merge_blocks(2)
  \/ delete_block
  \/ router_match_assets({"p1"}, {Catalog})
  \/ router_generate_visuals({"p1"}, LifetimeAnswers, {Catalog}, MaxWorkflowIds)

SpecStatus == Init /\ [][NextStatus]_vars

\* Two requests that reconcile candidates for two blocks at the same time.
NextRace ==
  \/ create_block({"p1"}, TextInputs, KeywordInputs, {0}, MaxLinkedIds)
  \/ reconcile_begin(CandidateLists)
  \/ reconcile_lookup
  \/ reconcile_insert
  \/ reconcile_commit

SpecRace == Init /\ [][NextRace]_vars

\* create_block, delete_block and split_block, commit by commit, by requests
\* that run at the same time.
NextCommits ==
  \/ create_block_shift({"p1"}, TextInputs, KeywordInputs, 0..MaxInsertAt, MaxBlockIds)
  \/ create_block_insert
  \/ delete_block_delete
  \/ delete_block_shift
  \/ split_block_add(MaxBlockIds)
  \/ split_block_shift

SpecCommits == Init /\ [][NextCommits]_vars

\* ------------------------------------------------------------- QA tasks
\* Rows of qa_tasks at any time.
MaxTasks == 1

TaskIds == 1..MaxTasks

\* QATask as create_task builds it: status "pending", progress 0, the
\* nullable columns empty.
QATask(project_id) ==
  [project_id |-> project_id, status |-> "pending", progress |-> 0,
   result_json |-> None, error_message |-> None, completed_at |-> None]

\* The record of a step of execute_qa_task: the task and the statement.
TaskStep(r, task_id, statement) ==
  [Raised("execute_qa_task", "ok", statement) EXCEPT !.new = task_id]

\* create_task: the row is added and committed; ids are uuids, here the next
\* integer.
create_task(P) ==
  \E project_id \in P :
    LET id == Cardinality(DOMAIN qa_tasks) + 1 IN
    /\ id <= MaxTasks
    /\ qa_tasks' = [t \in DOMAIN qa_tasks \cup {id} |->
                      IF t = id THEN QATask(project_id) ELSE qa_tasks[t]]
    /\ last' = [Raised("create_task", "ok", "") EXCEPT !.new = id]
    /\ UNCHANGED <<blocks, nextBlockId, assets, nextAssetId, block_assets,
                   requests, qa_versions>>

\* start_background_task: asyncio.create_task(execute_qa_task(task_id)); the
\* coroutine waits at its first statement.  Nothing is read of the task.
start_background_task(T) ==
  \E r \in RequestIds \ DOMAIN requests, task_id \in T :
    /\ requests' = Started(r, [op |-> "execute_qa_task", task_id |-> task_id,
                               pc |-> "task"])
    /\ last' = [Raised("start_background_task", "ok", "") EXCEPT !.new = task_id]
    /\ UNCHANGED <<blocks, nextBlockId, assets, nextAssetId, block_assets,
                   qa_tasks, qa_versions>>

\* The coroutine r moves on to statement pc.
Goes(r, pc) == [requests EXCEPT ![r].pc = pc]

\* execute_qa_task lines 53-60: no such task, return; else status and
\* progress are written and committed.
qa_running(r) ==
  /\ r \in DOMAIN requests
  /\ requests[r].op = "execute_qa_task"
  /\ requests[r].pc = "task"
  /\ LET task_id == requests[r].task_id IN
     IF task_id \notin DOMAIN qa_tasks
       THEN /\ requests' = Finished(r)
            /\ last' = [TaskStep(r, task_id, "return") EXCEPT !.res = "no task"]
            /\ UNCHANGED qa_tasks
     ELSE /\ qa_tasks' = [qa_tasks EXCEPT ![task_id].status = "running",
                                          ![task_id].progress = 10]
          /\ requests' = Goes(r, "project")
          /\ last' = TaskStep(r, task_id, "running")
  /\ UNCHANGED <<blocks, nextBlockId, assets, nextAssetId, block_assets, qa_versions>>

\* Line 70: the texts of the project's blocks that are not empty, which
\* full_script joins.
full_script(project_id) ==
  { blocks[b].text : b \in { c \in BlockIds : /\ blocks[c].project_id = project_id
                                               /\ blocks[c].text # <<>> } }

\* Lines 64-77: the project is missing or its blocks have no text,
\* ValueError; else progress 30 is committed.  The projects table is not
\* held here: whether the row is found is the caller's world.
qa_project(r) ==
  /\ r \in DOMAIN requests
  /\ requests[r].op = "execute_qa_task"
  /\ requests[r].pc = "project"
  /\ LET task_id == requests[r].task_id IN
     \E project \in BOOLEAN :
       IF ~project \/ full_script(qa_tasks[task_id].project_id) = {}
         THEN /\ requests' = Goes(r, "except")
              /\ last' = [TaskStep(r, task_id, IF project THEN "no text" ELSE "no project")
                            EXCEPT !.res = "ValueError"]
              /\ UNCHANGED qa_tasks
       ELSE /\ qa_tasks' = [qa_tasks EXCEPT ![task_id].progress = 30]
            /\ requests' = Goes(r, "guideline")
            /\ last' = TaskStep(r, task_id, "progress 30")
  /\ UNCHANGED <<blocks, nextBlockId, assets, nextAssetId, block_assets, qa_versions>>

\* Lines 79-84: the user's guideline is read and progress 50 is committed.
qa_guideline(r) ==
  /\ r \in DOMAIN requests
  /\ requests[r].op = "execute_qa_task"
  /\ requests[r].pc = "guideline"
  /\ qa_tasks' = [qa_tasks EXCEPT ![requests[r].task_id].progress = 50]
  /\ requests' = Goes(r, "await")
  /\ last' = TaskStep(r, requests[r].task_id, "progress 50")
  /\ UNCHANGED <<blocks, nextBlockId, assets, nextAssetId, block_assets, qa_versions>>

\* Lines 86-95: await validate_and_correct_script(...) returns, and progress
\* 80 is committed, or raises QAServiceError.
qa_validate(r) ==
  /\ r \in DOMAIN requests
  /\ requests[r].op = "execute_qa_task"
  /\ requests[r].pc = "await"
  /\ LET task_id == requests[r].task_id IN
     \E returns \in BOOLEAN :
       IF returns
         THEN /\ qa_tasks' = [qa_tasks EXCEPT ![task_id].progress = 80]
              /\ requests' = Goes(r, "version")
              /\ last' = TaskStep(r, task_id, "progress 80")
       ELSE /\ requests' = Goes(r, "except")
            /\ last' = [TaskStep(r, task_id, "await") EXCEPT !.res = "QAServiceError"]
            /\ UNCHANGED qa_tasks
  /\ UNCHANGED <<blocks, nextBlockId, assets, nextAssetId, block_assets, qa_versions>>

\* The task row once the run has completed (lines 114-118).
Completed(task) ==
  [task EXCEPT !.status = "completed", !.progress = 100,
               !.result_json = Some("result"), !.completed_at = Some("now")]

\* Lines 101-118.  The arguments of create_version read
\* qa_result.input_tokens, a field QAScriptResponse does not have
\* (schemas/project.py lines 129-136): AttributeError inside the try, logged
\* as a warning, and no version is stored.  Then the task is completed and
\* committed, and the session is closed.
qa_complete(r) ==
  /\ r \in DOMAIN requests
  /\ requests[r].op = "execute_qa_task"
  /\ requests[r].pc = "version"
  /\ qa_tasks' = [qa_tasks EXCEPT ![requests[r].task_id] = Completed(@)]
  /\ requests' = Finished(r)
  /\ last' = TaskStep(r, requests[r].task_id, "completed")
  /\ UNCHANGED <<blocks, nextBlockId, assets, nextAssetId, block_assets, qa_versions>>

\* A handler that logs the error and leaves the row as it is.
FailedUnrecorded(task) == task

\* The task row once the except branch has run (lines 126-129).
Failed(task) ==
  [task EXCEPT !.status = "failed", !.error_message = Some("error"),
               !.completed_at = Some("now")]

\* Lines 122-135: the task is read again; if it is there it is failed and
\* committed; the session is closed.
qa_except(r) ==
  /\ r \in DOMAIN requests
  /\ requests[r].op = "execute_qa_task"
  /\ requests[r].pc = "except"
  /\ qa_tasks' = [t \in DOMAIN qa_tasks |->
                    IF t = requests[r].task_id THEN Failed(qa_tasks[t]) ELSE qa_tasks[t]]
  /\ requests' = Finished(r)
  /\ last' = TaskStep(r, requests[r].task_id, "failed")
  /\ UNCHANGED <<blocks, nextBlockId, assets, nextAssetId, block_assets, qa_versions>>

\* The statements of the coroutine r, one commit each.
execute_qa_task(r) ==
  \/ qa_running(r)
  \/ qa_project(r)
  \/ qa_guideline(r)
  \/ qa_validate(r)
  \/ qa_complete(r)
  \/ qa_except(r)

\* QA tasks of a project, created and run before and after the project has a
\* block of text.
NextQa ==
  \/ create_block({"p1"}, TextInputs, KeywordInputs, {0}, MaxCreated)
  \/ create_task({"p1"})
  \/ start_background_task(TaskIds)
  \/ \E r \in RequestIds : execute_qa_task(r)

SpecQa == Init /\ [][NextQa]_vars

\* The event loop runs every coroutine that is ready, and the awaited QA
\* call returns or raises.
SpecQaLive == SpecQa /\ \A r \in RequestIds : WF_vars(execute_qa_task(r))

\* ----------------------------------------------------------- QA versions
\* Rows of qa_versions at any time, and the largest version_number given.
MaxVersions == 3
MaxVersionNumber == 4

\* The rows of qa_versions of a project.
VersionsOf(project_id) == { v \in qa_versions : v.project_id = project_id }

\* A version number from the number of rows of the project.
CountedVersionNumber(project_id) == Cardinality(VersionsOf(project_id)) + 1

\* create_version lines 87-92: func.max(version_number) of the project's
\* rows, `or 0` when there is none, plus one.
NewVersionNumber(project_id) ==
  LET numbers == { v.version_number : v \in VersionsOf(project_id) }
      max_version == IF numbers = {} THEN 0
                     ELSE CHOOSE n \in numbers : \A m \in numbers : m <= n
  IN  max_version + 1

\* QAVersion.id is a new uuid4: here the least id no stored row has.
NewVersionId ==
  CHOOSE id \in 1..(MaxVersions + 1) :
    /\ \A v \in qa_versions : v.id # id
    /\ \A smaller \in 1..(id - 1) : \E v \in qa_versions : v.id = smaller

\* create_version: the row is added with the new number and committed.
create_version(P) ==
  \E project_id \in P :
    /\ Cardinality(qa_versions) < MaxVersions
    /\ NewVersionNumber(project_id) <= MaxVersionNumber
    /\ qa_versions' = qa_versions \cup
         { [id |-> NewVersionId, project_id |-> project_id,
            version_number |-> NewVersionNumber(project_id)] }
    /\ last' = [Raised("create_version", "ok", "") EXCEPT !.new = NewVersionId]
    /\ UNCHANGED <<blocks, nextBlockId, assets, nextAssetId, block_assets,
                   requests, qa_tasks>>

\* delete_version: False when no row has the id; else the row is deleted and
\* committed.
delete_version ==
  \E version_id \in 1..(MaxVersions + 1) :
    /\ IF \E v \in qa_versions : v.id = version_id
         THEN /\ qa_versions' = { v \in qa_versions : v.id # version_id }
              /\ last' = [Raised("delete_version", "ok", "") EXCEPT !.id = version_id]
       ELSE /\ last' = [Raised("delete_version", "False", "get_version_by_id")
                          EXCEPT !.id = version_id]
            /\ UNCHANGED qa_versions
    /\ UNCHANGED <<blocks, nextBlockId, assets, nextAssetId, block_assets,
                   requests, qa_tasks>>

\* Versions of two projects, created and deleted one call at a time.
NextVersions ==
  \/ create_version(Projects)
  \/ delete_version

SpecVersions == Init /\ [][NextVersions]_vars

\* The project workflows of one project.
NextWorkflow ==
  \/ split_script({"p1"}, LlmAnswers, MaxWorkflowIds)
  \/ router_split_script({"p1"}, LlmAnswers, MaxWorkflowIds)
  \/ generate_visuals({"p1"}, LlmAnswers, Worlds, MaxWorkflowIds)
  \/ router_generate_visuals({"p1"}, LlmAnswers, Worlds, MaxWorkflowIds)
  \/ match_all_blocks({"p1"}, Worlds)
  \/ router_match_assets({"p1"}, Worlds)

SpecWorkflow == Init /\ [][NextWorkflow]_vars

\* ------------------------------------------------------ claims: vocabulary
Ok(op) == last'.op = op /\ last'.res = "ok"

\* The blocks S of the table `rows` listed by index ascending.
ListingIn(rows, S) ==
  CHOOSE s \in [1..Cardinality(S) -> S] :
    /\ \A i, j \in 1..Cardinality(S) : i # j => s[i] # s[j]
    /\ \A i \in 1..(Cardinality(S) - 1) : rows[s[i]].index <= rows[s[i+1]].index

ProjectBlocksIn(rows, p) == {b \in DOMAIN rows : rows[b].project_id = p}

ProjectListing(rows, p) == ListingIn(rows, ProjectBlocksIn(rows, p))

\* The sequence s without the elements of S, and with x put right after element a.
Without(s, S) == SelectSeq(s, LAMBDA x : x \notin S)
PositionOf(s, a) == CHOOSE i \in 1..Len(s) : s[i] = a
InsertAfter(s, a, x) ==
  SubSeq(s, 1, PositionOf(s, a)) \o <<x>> \o SubSeq(s, PositionOf(s, a) + 1, Len(s))

NoEqualOrder(rows) ==
  \A a, b \in DOMAIN rows :
    (a # b /\ rows[a].project_id = rows[b].project_id) => rows[a].index # rows[b].index

\* ------------------------------------------------------------------ C1
\* The primary rows of block b, with their multiplicity.
PrimaryRows(b) ==
  [r \in {x \in DOMAIN block_assets : x.block_id = b /\ x.is_primary} |-> block_assets[r]]

\* C1: after any sequence of save_and_link_assets (clearing or not),
\* add_asset_to_block, set_primary_asset, edit, split, merge and match calls
\* every block has at most one block_assets row with is_primary true.
C1_AtMostOnePrimary ==
  \A b \in BlockIds : BagCardinality(PrimaryRows(b)) <= 1

\* ------------------------------------------------------------------ C2
EditOps ==
  {"update_block", "update_block_text", "update_block_keywords",
   "router_update_block", "extract_block_keywords", "generate_text_for_block"}

\* C2: after a text or keyword edit of an existing block, through any of the
\* edit paths (update_block, update_block_text, update_block_keywords,
\* PUT /blocks/{id}, keyword extraction, text generation), the block has no
\* block_assets row and status DRAFT, whatever its status was and whether or
\* not it had a primary row.
C2_EditInvalidates ==
  (last.op \in EditOps /\ last.res = "ok") =>
    /\ last.id \in BlockIds
    /\ blocks[last.id].status = DRAFT
    /\ LinksOf(last.id) = {}

\* An edit of a block that was CUSTOM (its primary chosen by the user) and
\* had two rows has happened.
C2_Witness ==
  /\ last.op = "extract_block_keywords" /\ last.res = "ok"
  /\ last.was = CUSTOM
  /\ last.had = 2

\* ------------------------------------------------------------------ C3
\* C3: after each completed create, split, delete or merge no two blocks of a
\* project have equal position keys, and the listing by key is the reading
\* order: a split's second half directly follows its first half, a merge
\* leaves the survivor where the earliest merged block was, a created block
\* sits before every block that was at insert_at or later and after the
\* others, a delete only removes the block; other projects' listings stay.
C3_Step ==
  /\ NoEqualOrder(blocks')
  /\ Ok("split_block") =>
       LET p == blocks[last'.id].project_id
       IN /\ ProjectListing(blocks', p) =
               InsertAfter(ProjectListing(blocks, p), last'.id, last'.new)
          /\ \A q \in Projects \ {p} : ProjectListing(blocks', q) = ProjectListing(blocks, q)
  /\ Ok("merge_blocks") =>
       LET p == blocks[last'.id].project_id
       IN /\ ProjectListing(blocks', p) =
               Without(ProjectListing(blocks, p), last'.ids \ {last'.id})
          /\ \A i \in last'.ids : blocks[last'.id].index <= blocks[i].index
          /\ \A q \in Projects \ {p} : ProjectListing(blocks', q) = ProjectListing(blocks, q)
  /\ Ok("delete_block") =>
       \A q \in Projects :
         ProjectListing(blocks', q) = Without(ProjectListing(blocks, q), {last'.id})
  /\ Ok("create_block") =>
       LET p == blocks'[last'.id].project_id
           after == ProjectListing(blocks', p)
       IN /\ Without(after, {last'.id}) = ProjectListing(blocks, p)
          /\ \A b \in ProjectBlocksIn(blocks, p) :
               (blocks[b].index < last'.pos) <=>
                 (PositionOf(after, b) < PositionOf(after, last'.id))
          /\ \A q \in Projects \ {p} : ProjectListing(blocks', q) = ProjectListing(blocks, q)

C3_OrderMonotonic == [][C3_Step]_vars

\* A merge that left a later block of the project in place has happened.
C3_Witness ==
  /\ last.op = "merge_blocks" /\ last.res = "ok"
  /\ \E b \in BlockIds \ {last.id} :
       /\ blocks[b].project_id = blocks[last.id].project_id
       /\ blocks[b].index > blocks[last.id].index

\* ------------------------------------------------------------------ C4
\* C4: create_block and delete_block leave the position key of every other
\* block as it was.
C4_InsertDeleteLocal ==
  [][(Ok("create_block") \/ Ok("delete_block")) =>
       \A b \in (DOMAIN blocks \cap DOMAIN blocks') \ {last'.id} :
         blocks'[b].index = blocks[b].index]_vars

\* ------------------------------------------------------------------ C5
\* C5: a successful merge_blocks leaves the position key of the survivor and
\* of every block outside the merged set as it was.
C5_MergeLocal ==
  [][Ok("merge_blocks") =>
       \A b \in DOMAIN blocks' : blocks'[b].index = blocks[b].index]_vars

\* ------------------------------------------------------------------ C6
\* C6: a project that has blocks, with indices 0..N-1, has after a
\* create_block, delete_block, split_block or merge_blocks call indices 0..M-1.
Contiguous(rows, p) ==
  /\ {rows[b].index : b \in ProjectBlocksIn(rows, p)} =
       0..(Cardinality(ProjectBlocksIn(rows, p)) - 1)
  /\ \A a, b \in ProjectBlocksIn(rows, p) : a # b => rows[a].index # rows[b].index

C6_IndicesContiguous ==
  [][\A p \in Projects :
       (ProjectBlocksIn(blocks, p) # {} /\ Contiguous(blocks, p)) => Contiguous(blocks', p)]_vars

\* ------------------------------------------------------------------ C7
\* C7: a successful split_block(block, position) on text T leaves the block
\* with T[:position] trimmed, creates exactly one block, with T[position:]
\* trimmed, both texts non-empty, and the project has one block more.
C7_Step ==
  Ok("split_block") =>
    LET id == last'.id
        new == last'.new
        T == blocks[id].text
        p == blocks[id].project_id
    IN /\ id \in DOMAIN blocks'
       /\ new \notin DOMAIN blocks
       /\ DOMAIN blocks' = DOMAIN blocks \cup {new}
       /\ blocks'[id].text = Strip(SubSeq(T, 1, last'.pos))
       /\ blocks'[new].text = Strip(SubSeq(T, last'.pos + 1, Len(T)))
       /\ blocks'[id].text # <<>>
       /\ blocks'[new].text # <<>>
       /\ blocks'[new].project_id = p
       /\ Cardinality(ProjectBlocksIn(blocks', p)) =
            Cardinality(ProjectBlocksIn(blocks, p)) + 1

C7_SplitTexts == [][C7_Step]_vars

\* A split whose halves needed trimming has happened.
C7_Witness ==
  /\ last.op = "split_block" /\ last.res = "ok"
  /\ last.pos = 2
  /\ blocks[last.id].text = <<"a">>
  /\ blocks[last.new].text = <<"b">>

\* ------------------------------------------------------------------ C8
\* C8: after a successful split the first half has the original block's
\* position key, the new block's key is greater than it and less than the key
\* of the block that followed the original, or is the first half's key + GAP
\* when the original was the last block of its project.
C8_Step ==
  Ok("split_block") =>
    LET id == last'.id
        new == last'.new
        p == blocks[id].project_id
        before == ProjectListing(blocks, p)
        at == PositionOf(before, id)
    IN /\ blocks'[id].index = blocks[id].index
       /\ blocks'[new].index > blocks'[id].index
       /\ IF at < Len(before)
            THEN blocks'[new].index < blocks'[before[at + 1]].index
            ELSE blocks'[new].index = blocks'[id].index + GAP

C9_Step ==
  /\ (last'.op = "split_block" /\ last'.res # "ok") =>
       /\ last'.res \in {"BlockSplitError", "BlockNotFoundError"}
       /\ UNCHANGED <<blocks, block_assets, nextBlockId>>
  /\ Ok("split_block") =>
       LET T == blocks[last'.id].text
       IN /\ last'.id \in DOMAIN blocks
          /\ last'.pos > 0
          /\ last'.pos < Len(T)
          /\ Strip(SubSeq(T, 1, last'.pos)) # <<>>
          /\ Strip(SubSeq(T, last'.pos + 1, Len(T))) # <<>>

C9_SplitFailureFrame == [][C9_Step]_vars

\* A split of the only block, which is MATCHED and has rows, has just been
\* rejected for an empty half.
C9_Witness ==
  /\ last.op = "split_block" /\ last.res = "BlockSplitError" /\ last.why = "empty_half"
  /\ \E b \in BlockIds :
       /\ BlockIds = {b}
       /\ blocks[b].status = MATCHED
       /\ LinksOf(b) # {}

\* ------------------------------------------------------------------ C10
\* C10: after a successful split of a block with keywords K the first half
\* has K[:3] and the second half has K[3:].
C10_SplitKeywords ==
  [][Ok("split_block") =>
       /\ blocks'[last'.id].keywords =
            SubSeq(blocks[last'.id].keywords, 1, Min(3, Len(blocks[last'.id].keywords)))
       /\ blocks'[last'.new].keywords =
            SubSeq(blocks[last'.id].keywords, 4, Len(blocks[last'.id].keywords))]_vars

\* ------------------------------------------------------------------ C11
\* C11: after a successful split both halves have status DRAFT, every
\* block_assets row of the original block is gone and the new block has none.
C11_SplitInvalidates ==
  (last.op = "split_block" /\ last.res = "ok") =>
    /\ blocks[last.id].status = DRAFT
    /\ blocks[last.new].status = DRAFT
    /\ LinksOf(last.id) = {}
    /\ LinksOf(last.new) = {}

\* A split of a block that was MATCHED and had two rows has happened.
C11_Witness ==
  /\ last.op = "split_block" /\ last.res = "ok"
  /\ last.was = MATCHED
  /\ last.had = 2

\* ------------------------------------------------------------------ C12
\* C12: merge_blocks fails with BlockMergeError when a requested id names no
\* block of the given project or when another block of the project lies
\* between two of the requested blocks (so a merge that succeeds had neither);
\* a failing merge changes no block's text, keywords, status or position key
\* and deletes no block and no block_assets row.
C12_Step ==
  /\ (last'.op = "merge_blocks" /\ last'.res # "ok") =>
       /\ last'.res = "BlockMergeError"
       /\ UNCHANGED <<blocks, block_assets, nextBlockId>>
  /\ Ok("merge_blocks") =>
       /\ last'.ids \subseteq DOMAIN blocks
       /\ \A a, b \in last'.ids : blocks[a].project_id = blocks[b].project_id
       /\ \A a, b \in last'.ids :
            \A c \in ProjectBlocksIn(blocks, blocks[a].project_id) \ last'.ids :
              ~(blocks[a].index < blocks[c].index /\ blocks[c].index < blocks[b].index)

C12_MergeFailureFrame == [][C12_Step]_vars

\* A merge of the outer two of three blocks, one of which has rows, has just
\* been rejected.
C12_Witness ==
  /\ last.op = "merge_blocks" /\ last.res = "BlockMergeError" /\ last.why = "not_adjacent"
  /\ Cardinality(BlockIds) = 3
  /\ \E b \in BlockIds : blocks[b].status = MATCHED /\ LinksOf(b) # {}

\* ------------------------------------------------------------------ C13
\* The blocks S of project p are consecutive in the project's ordering: no
\* other block of the project has a position key between two of them.
Consecutive(S, p) ==
  \A a, b \in S : \A c \in ProjectBlocks(p) \ S :
    ~(blocks[a].index < blocks[c].index /\ blocks[c].index < blocks[b].index)

\* C13: merge_blocks accepts two or more blocks of one project exactly when
\* they are consecutive in the project's ordering, whatever the distance
\* between their position keys.
C13_MergeAcceptsNeighbours ==
  \A p \in Projects : \A S \in SUBSET ProjectBlocks(p) :
    Cardinality(S) >= 2 =>
      (Consecutive(S, p) <=>
         (~MergeMissing(p, S) /\ \A found \in OrderedByIndex(S) : ~MergeNotAdjacent(found)))
\* ------------------------------------------------------------------ C14
\* The sequences of seqs one after the other.
RECURSIVE Concat(_)
Concat(seqs) == IF seqs = <<>> THEN <<>> ELSE Head(seqs) \o Concat(Tail(seqs))

\* The elements of cat in the order of their first occurrence: the last
\* element belongs to the result exactly when it does not occur earlier.
RECURSIVE FirstSeen(_)
FirstSeen(cat) ==
  IF cat = <<>> THEN <<>>
  ELSE IF \E j \in 1..(Len(cat) - 1) : cat[j] = cat[Len(cat)]
    THEN FirstSeen(SubSeq(cat, 1, Len(cat) - 1))
  ELSE Append(FirstSeen(SubSeq(cat, 1, Len(cat) - 1)), cat[Len(cat)])

\* The texts separated by a blank line.
RECURSIVE BlankLineJoined(_)
BlankLineJoined(texts) ==
  IF Len(texts) = 1 THEN texts[1]
  ELSE BlankLineJoined(SubSeq(texts, 1, Len(texts) - 1)) \o <<"\n", "\n">> \o texts[Len(texts)]

\* The first n elements of s, or s when it has fewer.
Cut(s, n) == IF Len(s) <= n THEN s ELSE SubSeq(s, 1, n)

\* What C14 says of the merge of the blocks S, listed by position key as
\* `merged`, into the survivor id.
C14_After(id, S, merged) ==
  /\ id \in S
  /\ \A b \in S : blocks[id].index <= blocks[b].index
  /\ blocks'[id].text = BlankLineJoined([i \in 1..Len(merged) |-> blocks[merged[i]].text])
  /\ blocks'[id].keywords =
       Cut(FirstSeen(Concat([i \in 1..Len(merged) |-> blocks[merged[i]].keywords])), 10)
  /\ blocks'[id].status = DRAFT
  /\ DOMAIN blocks' = DOMAIN blocks \ (S \ {id})
  /\ Cardinality(DOMAIN blocks') = Cardinality(DOMAIN blocks) - (Cardinality(S) - 1)

\* C14: after a successful merge the survivor is the lowest-ordered block of
\* the set, its text is the merged texts in order joined by a blank line, its
\* keywords are the merged blocks' keywords in first-seen order cut to 10, its
\* status is DRAFT, and the other merged blocks are gone and nothing else is.
C14_Step ==
  Ok("merge_blocks") => C14_After(last'.id, last'.ids, ListingIn(blocks, last'.ids))

C14_MergeResult == [][C14_Step]_vars

\* A merge of three blocks whose keyword lists overlap and hold twelve
\* keywords together has happened: the survivor has the first ten.
C14_Witness ==
  /\ last.op = "merge_blocks" /\ last.res = "ok"
  /\ Cardinality(last.ids) = 3
  /\ blocks[last.id].text = <<"x", "\n", "\n", "x", "\n", "\n", "x">>
  /\ blocks[last.id].keywords =
       <<"k1", "k2", "k3", "k4", "k5", "k6", "k7", "k8", "k9", "k10">>
\* ------------------------------------------------------------------ C15
\* C15: after a successful merge no block of the merged set has a
\* block_assets row, the survivor included.
C15_MergeInvalidates ==
  (last.op = "merge_blocks" /\ last.res = "ok") =>
    \A r \in DOMAIN block_assets : r.block_id \notin last.ids
C17_Step ==
  /\ (last'.op = "set_primary_asset" /\ last'.res # "ok") =>
       /\ last'.res = "AssetNotFoundError"
       /\ UNCHANGED <<blocks, block_assets, assets>>
  /\ (last'.op = "router_set_primary_asset" /\ last'.res # "ok") =>
       /\ last'.res = "HTTP404"
       /\ UNCHANGED <<blocks, block_assets, assets>>
  /\ (last'.op \in SetPrimaryOps /\ last'.res = "ok") =>
       \E r \in DOMAIN block_assets : r.block_id = last'.id /\ r.asset_id = last'.pos

C17_SetPrimaryMissing == [][C17_Step]_vars

\* set_primary_asset has just failed on the only block, which is CUSTOM and
\* has a primary row chosen by the user.
C17_Witness ==
  /\ last.op = "set_primary_asset" /\ last.res = "AssetNotFoundError"
  /\ \E b \in BlockIds :
       /\ BlockIds = {b}
       /\ blocks[b].status = CUSTOM
       /\ \E r \in LinksOf(b) : r.is_primary /\ r.chosen_by = USER
\* ------------------------------------------------------------------ C18
\* C18: after any sequence of get_or_create_asset, save_and_link_assets,
\* add_asset_to_block, single-block match and search-more calls there is at
\* most one asset row per source_url, and every block_assets row points at an
\* asset row.
C18_OneAssetPerUrl ==
  /\ \A a1 \in assets, a2 \in assets : a1.source_url = a2.source_url => a1 = a2
  /\ \A a \in assets : a.source_url # ""
  /\ \A r \in DOMAIN block_assets : \E a \in assets : a.id = r.asset_id

\* The same source_url was fed for two different blocks: one asset row with
\* that url, and a block_assets row to it from each block.
C18_Witness ==
  \E a \in assets, r1 \in DOMAIN block_assets, r2 \in DOMAIN block_assets :
    /\ r1.block_id # r2.block_id
    /\ r1.asset_id = a.id /\ r2.asset_id = a.id
    /\ Cardinality({x \in assets : x.source_url = a.source_url}) = 1
    /\ Cardinality(assets) = 2
    /\ last.op = "add_asset_to_block" /\ last.res = "ok"
\* ------------------------------------------------------------------ C19
\* The rows of block b, with their multiplicities.
C19_RowsOf(b) == [r \in LinksOf(b) |-> block_assets[r]]

\* One row per candidate: candidate i's asset and score, primary iff i is the
\* first, chosen by AUTO.
RECURSIVE C19_Expected(_, _, _)
C19_Expected(b, candidates, i) ==
  IF i > Len(candidates) THEN EmptyBag
  ELSE SetToBag({[block_id |-> b,
                  asset_id |-> (CHOOSE a \in assets :
                                  a.source_url = candidates[i].source_url).id,
                  score |-> candidates[i].score,
                  is_primary |-> (i = 1),
                  chosen_by |-> AUTO]})
         (+) C19_Expected(b, candidates, i + 1)

\* C19: after save_and_link_assets(block, candidates, clear_existing = True)
\* the block's rows are exactly one per candidate of this call, each with its
\* candidate's score, the first candidate's row primary and AUTO, every other
\* row not primary; no row of an earlier call is left.
C19_ClearExisting ==
  (last.op = "save_and_link_assets" /\ last.res = "ok") =>
    /\ \A i \in 1..Len(last.pos) : \E a \in assets : a.source_url = last.pos[i].source_url
    /\ C19_RowsOf(last.id) = C19_Expected(last.id, last.pos, 1)
    /\ BagCardinality(C19_RowsOf(last.id)) = Len(last.pos)

\* A block that had a row got two candidates in clear-existing mode.
C19_Witness ==
  /\ last.op = "save_and_link_assets" /\ last.res = "ok"
  /\ last.had > 0
  /\ Len(last.pos) = 2
  /\ \E r \in LinksOf(last.id) : ~r.is_primary
\* ------------------------------------------------------------------ C20
AdditiveOps == {"add_asset_to_block", "search_assets_by_keyword"}

\* The number of rows of the (block, asset) pair in table ba.
PairCount(ba, block_id, asset_id) ==
  BagCardinality([r \in {x \in DOMAIN ba : x.block_id = block_id /\ x.asset_id = asset_id}
                    |-> ba[r]])

\* C20: add_asset_to_block and POST /blocks/{id}/search leave every row
\* that was there as it was (is_primary and chosen_by included), and add a row
\* only to the block they address, only for a (block, asset) pair that had no
\* row, and only one row for it.
C20_Step ==
  (last'.op \in AdditiveOps /\ last'.res = "ok") =>
    /\ block_assets \sqsubseteq block_assets'
    /\ \A r \in DOMAIN block_assets' :
         CopiesIn(r, block_assets') > CopiesIn(r, block_assets) =>
           /\ r.block_id = last'.id
           /\ PairCount(block_assets, r.block_id, r.asset_id) = 0
           /\ PairCount(block_assets', r.block_id, r.asset_id) = 1
    /\ UNCHANGED nextBlockId

C20_AdditiveFrame == [][C20_Step]_vars

\* A search that returned the same result twice has added one row to a block
\* whose primary row was chosen by the user.
C20_Witness ==
  /\ last.op = "search_assets_by_keyword" /\ last.res = "ok"
  /\ Len(last.pos) = 2 /\ last.pos[1] = last.pos[2]
  /\ last.had = 1
  /\ BagCardinality([r \in LinksOf(last.id) |-> block_assets[r]]) = 2
  /\ \E r \in LinksOf(last.id) : r.is_primary /\ r.chosen_by = USER
\* ------------------------------------------------------------------ C21
SplitWorkflowOps == {"split_script", "router_split_script"}

\* The blocks of project p in the blocks table t.
BlocksOfIn(t, p) == {b \in DOMAIN t : t[b].project_id = p}

\* C21: after a successful workflow Split that got n (text, keywords) pairs
\* from the splitter, the project's blocks are exactly n new blocks, no block
\* that existed before remains, and the i-th block has the key i * GAP, the
\* i-th pair's text and keywords, status DRAFT and no block_assets row.
C21_Step ==
  (last'.op \in SplitWorkflowOps /\ last'.res = "ok") =>
    LET created == BlocksOfIn(blocks', last'.project)
        pairs == last'.pos
    IN /\ Cardinality(created) = Len(pairs)
       /\ created \cap DOMAIN blocks = {}
       /\ \A i \in 1..Len(pairs) :
            \E b \in created :
              /\ blocks'[b].index = i * GAP
              /\ blocks'[b].text = pairs[i].text
              /\ blocks'[b].keywords = pairs[i].keywords
              /\ blocks'[b].status = DRAFT
              /\ \A r \in DOMAIN block_assets' : r.block_id # b

C21_WorkflowSplit == [][C21_Step]_vars

\* ------------------------------------------------------------------ C22
MatchWorkflowOps == {"match_all_blocks", "router_match_assets"}

\* What the search pipeline returned for keywords during the call last
\* records: the matcher's list, nothing when it raised.
PipelineReturned(keywords) ==
  IF MatchRaises(last.run.world, keywords) THEN <<>>
  ELSE MatchAssetsForBlock(last.run.world, keywords, last.run.max_candidates,
                           last.run.video_priority)

\* The rows the reconciler builds from candidates for block b: one per
\* candidate, the first primary, all AUTO.
RECURSIVE RowsFrom(_, _, _)
RowsFrom(b, candidates, i) ==
  IF i > Len(candidates) THEN EmptyBag
  ELSE SetToBag({[block_id |-> b,
                  asset_id |-> (CHOOSE a \in assets :
                                  a.source_url = candidates[i].source_url).id,
                  score |-> candidates[i].score,
                  is_primary |-> (i = 1),
                  chosen_by |-> AUTO]})
         (+) RowsFrom(b, candidates, i + 1)

C22_Block(b, candidates) ==
  /\ blocks[b].status \in {MATCHED, NO_RESULT}
  /\ blocks[b].status = MATCHED <=> (blocks[b].keywords # <<>> /\ candidates # <<>>)
  /\ blocks[b].status = MATCHED =>
       /\ \A i \in 1..Len(candidates) :
            \E a \in assets : a.source_url = candidates[i].source_url
       /\ [r \in LinksOf(b) |-> block_assets[r]] = RowsFrom(b, candidates, 1)
  /\ blocks[b].status = NO_RESULT => LinksOf(b) = {}

\* C22: after workflow Match every block of the project is MATCHED or
\* NO_RESULT; it is MATCHED exactly when it has keywords and the search
\* pipeline returned candidates, and then its rows are exactly those
\* candidates; otherwise it has no row.  The count returned (the service's
\* return value, the count in the handler's message) is the number of
\* MATCHED blocks.
C22_MatchOutcome ==
  (last.op \in MatchWorkflowOps /\ last.res = "ok") =>
    /\ \A b \in ProjectBlocks(last.project) :
         C22_Block(b, PipelineReturned(blocks[b].keywords))
    /\ (IF last.op = "match_all_blocks" THEN last.new ELSE last.why)
         = Cardinality({b \in ProjectBlocks(last.project) : blocks[b].status = MATCHED})

\* The handler has matched a project of two blocks: one got two candidates,
\* the other none.
C22_Witness ==
  /\ last.op = "router_match_assets" /\ last.res = "ok"
  /\ last.new = 2 /\ last.why = 1
  /\ \E b \in ProjectBlocks(last.project) :
       blocks[b].status = MATCHED /\ Cardinality(LinksOf(b)) = 2
  /\ \E b \in ProjectBlocks(last.project) : blocks[b].status = NO_RESULT

\* ------------------------------------------------------------------ C23
GenerateWorkflowOps == {"generate_visuals", "router_generate_visuals"}

\* The answers of world, with the listing in place of every raising answer.
Repaired(world) ==
  [k \in DOMAIN world |-> IF world[k].raises THEN Catalog[k] ELSE world[k]]

\* What a workflow leaves of block b in tables db: its status and its rows,
\* each with its asset's url in place of the asset's id.
OutcomeIn(db, b) ==
  [status |-> db.blocks[b].status,
   rows |-> { [source_url |-> (CHOOSE a \in db.assets : a.id = r.asset_id).source_url,
               score |-> r.score, is_primary |-> r.is_primary, chosen_by |-> r.chosen_by,
               copies |-> db.block_assets[r]] :
              r \in {x \in DOMAIN db.block_assets : x.block_id = b} }]

\* The state after the step, as tables.
WorkflowDbAfter ==
  [blocks |-> blocks', nextBlockId |-> nextBlockId',
   assets |-> assets', nextAssetId |-> nextAssetId', block_assets |-> block_assets']

\* The tables the same workflow call leaves when no search raises.
C23_Unfailed ==
  LET project_id == last'.project
      run == last'.run
  IN IF last'.op \in MatchWorkflowOps
       THEN MatchBlocks(WorkflowDb,
                        CHOOSE ordered \in OrderedByIndex(ProjectBlocks(project_id)) : TRUE,
                        1, Repaired(run.world), run.max_candidates, run.video_priority).db
       ELSE GenerateBlocks(DeleteProjectBlocks(WorkflowDb, project_id), project_id, last'.pos,
                           0, IF last'.op = "generate_visuals" THEN 0 ELSE GAP,
                           Repaired(run.world), run.max_candidates)

C23_After(after, unfailed) ==
  \A b \in last'.ids :
    IF after.blocks[b].keywords # <<>> /\ MatchRaises(last'.run.world, after.blocks[b].keywords)
      THEN /\ after.blocks[b].status = NO_RESULT
           /\ \A r \in DOMAIN after.block_assets : r.block_id # b
      ELSE OutcomeIn(after, b) = OutcomeIn(unfailed, b)

\* C23: when the search raises for a block during workflow Match or
\* Generate, that block ends NO_RESULT without rows, and every other block of
\* the project ends as it does when no search raises.
C23_Step ==
  (/\ last'.op \in MatchWorkflowOps \cup GenerateWorkflowOps
   /\ last'.res = "ok"
   /\ \E k \in DOMAIN last'.run.world : last'.run.world[k].raises) =>
    C23_After(WorkflowDbAfter, C23_Unfailed)

C23_FailureIsolated == [][C23_Step]_vars

\* A Match in which the search raised for the first block and the second
\* block was matched.
C23_Witness ==
  /\ last.op \in MatchWorkflowOps /\ last.res = "ok"
  /\ \E b1, b2 \in ProjectBlocks(last.project) :
       /\ blocks[b1].index < blocks[b2].index
       /\ blocks[b1].keywords # <<>>
       /\ MatchRaises(last.run.world, blocks[b1].keywords)
       /\ blocks[b1].status = NO_RESULT
       /\ blocks[b2].status = MATCHED /\ LinksOf(b2) # {}

\* ------------------------------------------------------------------ C24
\* What a user sees of the project in tables db: per block its key, text,
\* keywords and status, the urls of its candidates and of its primary asset.
ProjectView(db, project_id) ==
  { [index |-> db.blocks[b].index, text |-> db.blocks[b].text,
     keywords |-> db.blocks[b].keywords, status |-> db.blocks[b].status,
     candidates |-> {row.source_url : row \in OutcomeIn(db, b).rows},
     primary |-> {row.source_url : row \in {x \in OutcomeIn(db, b).rows : x.is_primary}}] :
    b \in {x \in DOMAIN db.blocks : db.blocks[x].project_id = project_id} }

\* Split followed by Match with default options (video_priority = True), by
\* the service when service is TRUE and by the handlers otherwise, for the
\* splitter output and the search answers of the call last records.
SplitThenMatch(service) ==
  LET split == CreateSplitBlocks(DeleteProjectBlocks(WorkflowDb, last.project), last.project,
                                 last.pos, 0, IF service THEN 0 ELSE GAP)
      ordered == [i \in 1..Len(last.pos) |-> nextBlockId + i - 1]
  IN MatchBlocks(split, ordered, 1, last.run.world,
                 IF service THEN ServiceMaxCandidates ELSE HandlerMaxCandidates, TRUE).db

\* C24: for the same splitter output and the same search answers, Generate
\* ends in the state Split followed by Match with default options ends in:
\* the same keys, texts, keywords and statuses, and per block the same
\* candidate set and the same primary asset.
C24_GenerateIsSplitMatch ==
  (last.op \in GenerateWorkflowOps /\ last.res = "ok") =>
    ProjectView(WorkflowDb, last.project)
      = ProjectView(SplitThenMatch(last.op = "generate_visuals"), last.project)

\* ------------------------------------------------------------------ C25
\* The splitter raises or has nothing to return: the LLM call failed, or its
\* answer holds no block with a text.
SplitterFails(answer) ==
  \/ answer.failed
  \/ \A i \in 1..Len(answer.blocks) : \A j \in 1..Len(answer.blocks[i].text) :
       answer.blocks[i].text[j] \in Whitespace

\* C25: when the splitter raises ScriptProcessingError or returns nothing
\* during Split or Generate, the call surfaces a failure or an empty result,
\* and creates no block: no new row in the blocks table, no block left in the
\* project once the call got as far as the splitter.
C25_Step ==
  (last'.op \in SplitWorkflowOps \cup GenerateWorkflowOps /\ SplitterFails(last'.answer)) =>
    /\ last'.res \in {"ScriptProcessingError", "HTTP500", "HTTP400", "IntegrityError"}
       \/ (last'.res = "ok" /\ last'.new = 0 /\ last'.pos = <<>>)
    /\ last'.ids = {}
    /\ nextBlockId' = nextBlockId
    /\ DOMAIN blocks' \subseteq DOMAIN blocks
    /\ last'.why = "process_script" => BlocksOfIn(blocks', last'.project) = {}

C25_SplitterFailure == [][C25_Step]_vars

\* The generate handler answered 500 for a project that had blocks: the
\* splitter's answer held only a blank block.
C25_Witness ==
  /\ last.op = "router_generate_visuals" /\ last.res = "HTTP500"
  /\ ~last.answer.failed /\ last.answer.blocks # <<>>
  /\ last.had > 0
  /\ ProjectBlocks(last.project) = {}

\* ------------------------------------------------------------------ C26
\* C26: every lifecycle operation is atomic: when a call fails, the stored
\* blocks and block_assets rows equal those before the call.
C26_Step ==
  last'.res # "ok" => UNCHANGED <<blocks, block_assets>>

C26_Atomic == [][C26_Step]_vars

\* ------------------------------------------------------------------ C27
\* The results in fetch order of the call last records, scored.
C27_Pool == AllAssets(last.run.world, last.keywords, 1, last.run.video_priority)

\* The positions of the pool that hold the first occurrence of a url.
C27_Firsts(pool) ==
  {i \in 1..Len(pool) :
     /\ pool[i].source_url # ""
     /\ \A j \in 1..(i - 1) : pool[j].source_url # pool[i].source_url}

C27_Returned(result, pool, firsts) ==
  /\ \A i, j \in 1..Len(result) : i # j => result[i].source_url # result[j].source_url
  /\ \A i \in 1..Len(result) : \E f \in firsts : result[i] = pool[f]
  /\ \A i \in 1..(Len(result) - 1) : result[i].score >= result[i + 1].score
  /\ Len(result) = Min(last.run.max_candidates, Cardinality(firsts))
  /\ \A f \in firsts :
       (\A i \in 1..Len(result) : result[i] # pool[f]) =>
         \A i \in 1..Len(result) : result[i].score >= pool[f].score

\* C27: the list match_assets_for_block returns holds no url twice, holds for
\* every url its first occurrence in fetch order (with its score and matched
\* keyword), is sorted by score, non-increasing, and holds the max_candidates
\* highest-scored candidates of the deduplicated pool (all, if fewer).
C27_MatcherResult ==
  (last.op = "match_assets_for_block" /\ last.res = "ok") =>
    C27_Returned(last.pos, C27_Pool, C27_Firsts(C27_Pool))

\* A call whose pool held a url several times and more candidates than asked for.
C27_Witness ==
  /\ last.op = "match_assets_for_block" /\ last.res = "ok"
  /\ Len(last.pos) = last.run.max_candidates
  /\ Cardinality(C27_Firsts(C27_Pool)) > Len(last.pos)
  /\ \E i, j \in 1..Len(C27_Pool) :
       /\ i < j
       /\ C27_Pool[i].source_url = C27_Pool[j].source_url
       /\ C27_Pool[i].score # C27_Pool[j].score
       /\ \E n \in 1..Len(last.pos) : last.pos[n] = C27_Pool[i]

\* ------------------------------------------------------------------ C28
\* C28: the order allocate_between returns for an insertion lies strictly
\* between the orders of the neighbours of the position: above low when there
\* is a block before, below high when there is a block after (the first block
\* of the project included), and it is GAP in an empty project.
C28_AllocateBetween ==
  last.op = "insert_block" =>
    /\ last.low # None => last.low[1] < last.order
    /\ last.high # None => last.order < last.high[1]
    /\ (last.low = None /\ last.high = None) => last.order = Float(GAP)

\* ------------------------------------------------------------------ C29
C29_Step ==
  (last'.op = "reindex_blocks" /\ last'.res = "ok") =>
    /\ \A b, c \in last'.ids :
         blocks[b].index < blocks[c].index => blocks'[b].index < blocks'[c].index
    /\ \A i \in 1..Len(last'.pos) : blocks'[last'.pos[i]].index = GAP * ((i - 1) + 1)
    /\ DOMAIN blocks' = DOMAIN blocks
    /\ \A b \in DOMAIN blocks :
         /\ blocks'[b].project_id = blocks[b].project_id
         /\ blocks'[b].text = blocks[b].text
         /\ blocks'[b].keywords = blocks[b].keywords
         /\ blocks'[b].status = blocks[b].status
         /\ b \notin last'.ids => blocks'[b] = blocks[b]
    /\ UNCHANGED <<assets, block_assets>>

\* C29: reindexing a project keeps the relative order of its blocks and
\* gives the block at position p (from 0) the key GAP * (p + 1); it creates
\* and deletes no block and changes no text, keywords, status or block_assets
\* row.
C29_Reindex == [][C29_Step]_vars

\* ------------------------------------------------------------------ C30
\* C30: no operation deletes an assets row: over every step of the edits,
\* split, merge, delete_block, delete_project, Split, Match, Generate and
\* the reconciler, every asset that existed before the step exists after it.
C30_AssetsOnlyGrow == [][{a.id : a \in assets} \subseteq {a.id : a \in assets'}]_vars

\* delete_project removed the blocks of a project and all their block_assets
\* rows, and the assets are still there.
C30_Witness ==
  /\ last.op = "delete_project" /\ last.res = "ok"
  /\ last.had > 0
  /\ blocks = << >>
  /\ block_assets = EmptyBag
  /\ Cardinality(assets) = 2

C32_NoOrphanRows ==
  \A r \in DOMAIN block_assets : r.block_id \in BlockIds

\* ------------------------------------------------------------------ C33
\* C33: after every completed operation, every block that has a block_assets
\* row has exactly one row with is_primary = TRUE.
C33_OnePrimary ==
  \A b \in BlockIds :
    LinksOf(b) # {} =>
      BagCardinality([r \in {x \in LinksOf(b) : x.is_primary} |-> block_assets[r]]) = 1

\* ------------------------------------------------------------------ C34
\* C34: after every completed operation, a block has status CUSTOM if and
\* only if one of its block_assets rows is primary and chosen by the user.
C34_CustomIffUserPrimary ==
  \A b \in BlockIds :
    blocks[b].status = CUSTOM <=>
      \E r \in LinksOf(b) : r.is_primary /\ r.chosen_by = USER

\* ------------------------------------------------------------------ C35
\* C35: when two requests reconcile candidates with the same source_url at
\* the same time, under every interleaving of their statements there is one
\* assets row for that source_url.
C35_OneAssetRow ==
  \A a1 \in assets, a2 \in assets : a1.source_url = a2.source_url => a1.id = a2.id

\* ------------------------------------------------------------------ C36
\* C36: at every committed state, the commits inside create_block,
\* split_block and delete_block included and under every interleaving of two
\* such calls, no two blocks of a project have the same position key.
C36_UniqueKeys ==
  \A b, c \in BlockIds :
    (b # c /\ blocks[b].project_id = blocks[c].project_id) =>
      blocks[b].index # blocks[c].index

\* ------------------------------------------------------------------ C37
\* C37: at every step a task's status stays, or moves pending -> running,
\* running -> completed or running -> failed; progress does not go down
\* while the task runs; a completed task has progress 100, result_json and
\* completed_at; also when execute_qa_task is started again for the task.
C37_StatusMoves ==
  [][\A t \in DOMAIN qa_tasks :
       /\ \/ qa_tasks'[t].status = qa_tasks[t].status
          \/ <<qa_tasks[t].status, qa_tasks'[t].status>> \in
               { <<"pending", "running">>, <<"running", "completed">>,
                 <<"running", "failed">> }
       /\ qa_tasks[t].status = "running" => qa_tasks'[t].progress >= qa_tasks[t].progress
       /\ qa_tasks'[t].status = "completed" =>
            /\ qa_tasks'[t].progress = 100
            /\ qa_tasks'[t].result_json # None
            /\ qa_tasks'[t].completed_at # None]_vars

\* ------------------------------------------------------------------ C38
\* C38: a task that exists and has a run of execute_qa_task started, or
\* that is running, is completed or failed at some later time, whichever
\* way the run goes: project missing, no text, the QA call raising or
\* returning.
C38_Terminates ==
  \A t \in TaskIds :
    (/\ t \in DOMAIN qa_tasks
     /\ \/ qa_tasks[t].status = "running"
        \/ \E r \in DOMAIN requests : requests[r].task_id = t)
      ~> (t \in DOMAIN qa_tasks /\ qa_tasks[t].status \in {"completed", "failed"})

\* A run that found no project or no text has ended in the except branch,
\* and the task is failed.
C38_Witness ==
  /\ last.op = "execute_qa_task"
  /\ last.why = "failed"
  /\ qa_tasks[last.new].progress = 10
  /\ qa_tasks[last.new].status = "failed"

\* ------------------------------------------------------------------ C39
\* C39: a row create_version adds has version_number 1 when its project had
\* no row, else one more than the largest version_number the project had;
\* and after every call of create_version or delete_version the rows of one
\* project have pairwise distinct version numbers.
C39_VersionNumbers ==
  [][/\ \A v \in qa_versions' \ qa_versions :
          LET had == { w.version_number : w \in { x \in qa_versions :
                                                   x.project_id = v.project_id } }
          IN  /\ had = {} => v.version_number = 1
              /\ had # {} => /\ v.version_number - 1 \in had
                             /\ \A n \in had : n < v.version_number
     /\ \A v, w \in qa_versions' :
          (v.project_id = w.project_id /\ v.id # w.id) =>
            v.version_number # w.version_number]_vars

\* create_version has numbered a row of a project from which a version
\* with a smaller number was deleted before.
C39_Witness ==
  /\ last.op = "create_version"
  /\ \E v \in qa_versions :
       /\ v.id = last.new
       /\ v.version_number > Cardinality({ w \in qa_versions : w.project_id = v.project_id })

====
